---- MODULE Spec2Model ----
(***************************************************************************)
(* Trace ingestion and aggregation pipeline of the TypeScript performance  *)
(* analyzer: parseTraceFile, processEvents (Begin/End pairing,             *)
(* normalisation, sorted insertion), buildTimeline, aggregateByFile,       *)
(* extractLocationsFromFile and the selection and percentile utilities.    *)
(*                                                                         *)
(* Numbers.  Timestamps and the dur field of raw events are integers in    *)
(* microseconds.  A millisecond quantity (startTime, duration, the phase   *)
(* and file totals) is held in fixed point with three decimals: the        *)
(* integer v stands for v/1000 ms, so 0.5 ms is 500.                       *)
(*                                                                         *)
(* Optional values.  A field that may be undefined holds None (<<>>) or    *)
(* Some(v) (<<v>>).                                                        *)
(***************************************************************************)
EXTENDS Integers, Sequences, FiniteSets, TLC

VARIABLES
    rawEvents,        \* processEvents: the rawEvents parameter
    pc,               \* position of the pipeline
    events,           \* processEvents: the filtered, sorted copy
    idx,              \* processEvents: index (1-based) of the loop's next event
    minTimestamp,     \* processEvents: events[0].ts
    processedEvents,  \* processEvents: the output list under construction
    eventStacks,      \* processEvents: Map from stack key to stack of begins
    idCounter,        \* processEvents: id counter
    timeline,         \* the TimelineData objects built (None until built)
    arg,              \* argument of a direct call of an exported function
    result,           \* what that call returned (None until it returns)
    parse,            \* parseTraceFile: the run's closure, streams and promise
    rangeFilterCache, \* timeline-builder: the WeakMap of per-timeline caches
    arrays            \* the arrays of a direct call of a stage: its input first

vars == <<rawEvents, pc, events, idx, minTimestamp, processedEvents,
          eventStacks, idCounter, timeline, arg, result, parse,
          rangeFilterCache, arrays>>

----------------------------------------------------------------------------
(* Bounds *)

MaxEvents == 4
MaxTick == 2
MaxProcessed == 3
MaxDuration == 2

----------------------------------------------------------------------------
(* Values *)

None == <<>>

Some(v) == <<v>>

\* JavaScript truthiness of an optional string: defined and not empty.
Truthy(o) == o # None /\ o[1] # ""

UsPerMs == 1000

\* Variant of UsToMs: the division by 1000 is left out.
UsToMsUndivided(us) == us * 1000

\* x / 1000 of the code, x in microseconds, result in fixed point (1/1000 ms).
UsToMs(us) == (us * 1000) \div UsPerMs

NoArgs == [k \in {} |-> ""]

\* new WeakMap(): no timeline has a cache.
EmptyCache == [t \in {} |-> <<>>]

\* No direct call of a stage has been made.
NoArrays == <<>>

\* args[key] of an optional argument bag that is known to be defined.
ArgOf(args, key) == IF key \in DOMAIN args THEN Some(args[key]) ELSE None

\* a || b on optional strings.
OrElse(a, b) == IF Truthy(a) THEN a ELSE b

\* Variant of extractFilePath: fileName is tried before path.
extractFilePathFileNameFirst(event) ==
    IF event.args = None
    THEN None
    ELSE LET a == event.args[1]
         IN  OrElse(ArgOf(a, "fileName"),
             OrElse(ArgOf(a, "path"),
             OrElse(ArgOf(a, "containingFileName"),
                    ArgOf(a, "configFilePath"))))

extractFilePath(event) ==
    IF event.args = None
    THEN None
    ELSE LET a == event.args[1]
         IN  OrElse(ArgOf(a, "path"),
             OrElse(ArgOf(a, "fileName"),
             OrElse(ArgOf(a, "containingFileName"),
                    ArgOf(a, "configFilePath"))))

\* Variant of SpreadArgs: on a common key the first bag's value is kept.
SpreadArgsFirstWins(a, b) ==
    LET fa == IF a = None THEN NoArgs ELSE a[1]
        fb == IF b = None THEN NoArgs ELSE b[1]
    IN  [k \in DOMAIN fa \cup DOMAIN fb |->
            IF k \in DOMAIN fa THEN fa[k] ELSE fb[k]]

\* { ...a, ...b } on optional argument bags (spreading undefined adds nothing).
SpreadArgs(a, b) ==
    LET fa == IF a = None THEN NoArgs ELSE a[1]
        fb == IF b = None THEN NoArgs ELSE b[1]
    IN  [k \in DOMAIN fa \cup DOMAIN fb |->
            IF k \in DOMAIN fb THEN fb[k] ELSE fa[k]]

----------------------------------------------------------------------------
(* processEvents *)

\* Variant of FilterNotMetadata: the metadata events are kept.
FilterNotMetadataKeepAll(s) == s

RECURSIVE FilterNotMetadata(_)
FilterNotMetadata(s) ==
    IF s = <<>> THEN <<>>
    ELSE IF Head(s).ph # "M"
         THEN <<Head(s)>> \o FilterNotMetadata(Tail(s))
         ELSE FilterNotMetadata(Tail(s))

\* Array.prototype.sort is stable: e goes after every element whose ts is not
\* larger than its own.
RECURSIVE InsertByTs(_, _)
InsertByTs(sorted, e) ==
    IF sorted = <<>> THEN <<e>>
    ELSE IF Head(sorted).ts - e.ts > 0
         THEN <<e>> \o sorted
         ELSE <<Head(sorted)>> \o InsertByTs(Tail(sorted), e)

\* Variant of SortByTs: the events are processed in input order.
SortByTsSkipped(s) == s

RECURSIVE SortByTs(_)
SortByTs(s) ==
    IF s = <<>> THEN <<>>
    ELSE InsertByTs(SortByTs(SubSeq(s, 1, Len(s) - 1)), s[Len(s)])

\* The binary search of insertSorted; low, high and the result are 0-based.
RECURSIVE BinarySearch(_, _, _, _)
BinarySearch(arr, startTime, low, high) ==
    IF low < high
    THEN LET mid == (low + high) \div 2
         IN  IF arr[mid + 1].startTime < startTime
             THEN BinarySearch(arr, startTime, mid + 1, high)
             ELSE BinarySearch(arr, startTime, low, mid)
    ELSE low

Splice(arr, at, e) ==
    SubSeq(arr, 1, at) \o <<e>> \o SubSeq(arr, at + 1, Len(arr))

\* Variant of insertSorted: the event always goes to the end.
insertSortedAtEnd(arr, event) == Append(arr, event)

insertSorted(arr, event) ==
    IF Len(arr) = 0 \/ event.startTime >= arr[Len(arr)].startTime
    THEN Append(arr, event)
    ELSE Splice(arr, BinarySearch(arr, event.startTime, 0, Len(arr)), event)

\* Variant of StackKey: the thread id is left out of the key.
StackKeyWithoutTid(event) ==
    ToString(event.pid) \o "-" \o event.name \o "-" \o event.cat

StackKey(event) ==
    ToString(event.pid) \o "-" \o ToString(event.tid) \o "-"
        \o event.name \o "-" \o event.cat

\* Variant of Pop: the oldest entry is taken (shift).
PopOldest(stack) == [entry |-> stack[1], rest |-> Tail(stack)]

\* stack.pop(): the last entry, and the stack without it.
Pop(stack) ==
    [entry |-> stack[Len(stack)], rest |-> SubSeq(stack, 1, Len(stack) - 1)]

EventId(n) == "event-" \o ToString(n)

CompleteEvent(event) ==
    [id        |-> EventId(idCounter),
     name      |-> event.name,
     category  |-> event.cat,
     startTime |-> UsToMs(event.ts - minTimestamp),
     duration  |-> UsToMs(IF event.dur = None THEN 0 ELSE event.dur[1]),
     filePath  |-> extractFilePath(event),
     args      |-> event.args]

\* Variant of PairedEvent: the path of the End event is tried first.
PairedEventEndPathFirst(beginEntry, event) ==
    [id        |-> EventId(idCounter),
     name      |-> beginEntry.event.name,
     category  |-> beginEntry.event.cat,
     startTime |-> UsToMs(beginEntry.startTime - minTimestamp),
     duration  |-> UsToMs(event.ts - beginEntry.startTime),
     filePath  |-> OrElse(extractFilePath(event),
                          extractFilePath(beginEntry.event)),
     args      |-> Some(SpreadArgs(beginEntry.event.args, event.args))]

PairedEvent(beginEntry, event) ==
    [id        |-> EventId(idCounter),
     name      |-> beginEntry.event.name,
     category  |-> beginEntry.event.cat,
     startTime |-> UsToMs(beginEntry.startTime - minTimestamp),
     duration  |-> UsToMs(event.ts - beginEntry.startTime),
     filePath  |-> OrElse(extractFilePath(beginEntry.event),
                          extractFilePath(event)),
     args      |-> Some(SpreadArgs(beginEntry.event.args, event.args))]

----------------------------------------------------------------------------
(* aggregateByFile *)

NoFile == "__no_file__"

GroupKey(event) == IF Truthy(event.filePath) THEN event.filePath[1] ELSE NoFile

\* The index of the group of filePath in the Map, 0 when there is none.
GroupIndex(fileMap, filePath) ==
    IF \E i \in 1..Len(fileMap) : fileMap[i].filePath = filePath
    THEN CHOOSE i \in 1..Len(fileMap) : fileMap[i].filePath = filePath
    ELSE 0

\* Lines 10-16: the Map keeps its keys in insertion order.
RECURSIVE GroupByFile(_, _)
GroupByFile(evs, fileMap) ==
    IF evs = <<>> THEN fileMap
    ELSE LET event == Head(evs)
             filePath == GroupKey(event)
             at == GroupIndex(fileMap, filePath)
         IN  GroupByFile(Tail(evs),
                 IF at = 0
                 THEN Append(fileMap, [filePath |-> filePath, list |-> <<event>>])
                 ELSE [fileMap EXCEPT ![at].list = Append(@, event)])

\* Variant of TimingLoop: checkTypes does not fall through to check.
RECURSIVE TimingLoopCheckOnly(_, _)
TimingLoopCheckOnly(evs, acc) ==
    IF evs = <<>> THEN acc
    ELSE LET event == Head(evs)
             d == event.duration
         IN  TimingLoopCheckOnly(Tail(evs),
                 CASE event.category = "parse" -> [acc EXCEPT !.parse = @ + d]
                   [] event.category = "bind"  -> [acc EXCEPT !.bind = @ + d]
                   [] event.category = "check" -> [acc EXCEPT !.check = @ + d]
                   [] event.category = "emit"  -> [acc EXCEPT !.emit = @ + d]
                   [] OTHER -> acc)

RECURSIVE TimingLoop(_, _)
TimingLoop(evs, acc) ==
    IF evs = <<>> THEN acc
    ELSE LET event == Head(evs)
             d == event.duration
         IN  TimingLoop(Tail(evs),
                 CASE event.category = "parse" -> [acc EXCEPT !.parse = @ + d]
                   [] event.category = "bind"  -> [acc EXCEPT !.bind = @ + d]
                   [] event.category \in {"check", "checkTypes"} ->
                                                  [acc EXCEPT !.check = @ + d]
                   [] event.category = "emit"  -> [acc EXCEPT !.emit = @ + d]
                   [] OTHER -> acc)

RECURSIVE SumAll(_)
SumAll(evs) == IF evs = <<>> THEN 0 ELSE Head(evs).duration + SumAll(Tail(evs))

\* Variant of calculateFileTiming: the total adds up every event of the file.
calculateFileTimingTotalOfAll(evs) ==
    LET t == TimingLoop(evs, [parse |-> 0, bind |-> 0, check |-> 0, emit |-> 0])
    IN  [total |-> SumAll(evs),
         parse |-> t.parse, bind |-> t.bind, check |-> t.check, emit |-> t.emit]

calculateFileTiming(evs) ==
    LET t == TimingLoop(evs, [parse |-> 0, bind |-> 0, check |-> 0, emit |-> 0])
    IN  [total |-> t.parse + t.bind + t.check + t.emit,
         parse |-> t.parse, bind |-> t.bind, check |-> t.check, emit |-> t.emit]

\* Lines 21-36.  (shortPath, a display string, is not part of the record.)
RECURSIVE ToFileEvents(_)
ToFileEvents(fileMap) ==
    IF fileMap = <<>> THEN <<>>
    ELSE LET g == Head(fileMap)
             timings == calculateFileTiming(g.list)
         IN  IF g.filePath = NoFile
             THEN ToFileEvents(Tail(fileMap))
             ELSE <<[filePath  |-> g.filePath,
                     events    |-> g.list,
                     totalTime |-> timings.total,
                     parseTime |-> timings.parse,
                     bindTime  |-> timings.bind,
                     checkTime |-> timings.check,
                     emitTime  |-> timings.emit]>> \o ToFileEvents(Tail(fileMap))

\* sort((a, b) => b.totalTime - a.totalTime), stable: f goes after every
\* entry the comparator does not put behind it.
\* Variant of InsertByTotalDesc: f goes before the entries it ties with.
RECURSIVE InsertByTotalDescBeforeTies(_, _)
InsertByTotalDescBeforeTies(sorted, f) ==
    IF sorted = <<>> THEN <<f>>
    ELSE IF f.totalTime - Head(sorted).totalTime >= 0
         THEN <<f>> \o sorted
         ELSE <<Head(sorted)>> \o InsertByTotalDescBeforeTies(Tail(sorted), f)

RECURSIVE InsertByTotalDesc(_, _)
InsertByTotalDesc(sorted, f) ==
    IF sorted = <<>> THEN <<f>>
    ELSE IF f.totalTime - Head(sorted).totalTime > 0
         THEN <<f>> \o sorted
         ELSE <<Head(sorted)>> \o InsertByTotalDesc(Tail(sorted), f)

RECURSIVE SortByTotalDesc(_)
SortByTotalDesc(s) ==
    IF s = <<>> THEN <<>>
    ELSE InsertByTotalDesc(SortByTotalDesc(SubSeq(s, 1, Len(s) - 1)), s[Len(s)])

aggregateByFile(evs) == SortByTotalDesc(ToFileEvents(GroupByFile(evs, <<>>)))

PHASE_MAP ==
    [parse |-> "parse", bind |-> "bind", check |-> "check",
     checkTypes |-> "check", emit |-> "emit"]

\* PHASE_MAP[category] ?? null
getPhase(category) ==
    IF category \in DOMAIN PHASE_MAP THEN Some(PHASE_MAP[category]) ELSE None

----------------------------------------------------------------------------
(* buildTimeline *)

RECURSIVE FilterByPhase(_, _)
FilterByPhase(evs, cats) ==
    IF evs = <<>> THEN <<>>
    ELSE IF Head(evs).category \in cats
         THEN <<Head(evs)>> \o FilterByPhase(Tail(evs), cats)
         ELSE FilterByPhase(Tail(evs), cats)

RECURSIVE PhaseLoop(_, _)
PhaseLoop(evs, acc) ==
    IF evs = <<>> THEN acc
    ELSE LET d == Head(evs).duration
         IN  PhaseLoop(Tail(evs),
                 [totalTime |-> acc.totalTime + d,
                  maxTime   |-> IF acc.maxTime = None \/ d > acc.maxTime[1]
                                THEN Some(d) ELSE acc.maxTime,
                  minTime   |-> IF acc.minTime = None \/ d < acc.minTime[1]
                                THEN Some(d) ELSE acc.minTime])

EmptyPhase ==
    [totalTime |-> 0, count |-> 0, avgTime |-> [num |-> 0, den |-> 1],
     maxTime |-> 0, minTime |-> 0]

\* Variant of calculatePhaseTiming: minTime starts at 0.
calculatePhaseTimingMinFromZero(evs) ==
    IF Len(evs) = 0 THEN EmptyPhase
    ELSE LET r == PhaseLoop(evs, [totalTime |-> 0, maxTime |-> None,
                                  minTime |-> Some(0)])
         IN  [totalTime |-> r.totalTime,
              count     |-> Len(evs),
              avgTime   |-> [num |-> r.totalTime, den |-> Len(evs)],
              maxTime   |-> r.maxTime[1],
              minTime   |-> r.minTime[1]]

\* maxTime and minTime start at -Infinity and Infinity (None here); avgTime is
\* the quotient totalTime / count, kept as numerator and denominator.
calculatePhaseTiming(evs) ==
    IF Len(evs) = 0 THEN EmptyPhase
    ELSE LET r == PhaseLoop(evs, [totalTime |-> 0, maxTime |-> None,
                                  minTime |-> None])
         IN  [totalTime |-> r.totalTime,
              count     |-> Len(evs),
              avgTime   |-> [num |-> r.totalTime, den |-> Len(evs)],
              maxTime   |-> r.maxTime[1],
              minTime   |-> r.minTime[1]]

calculatePhaseInfo(evs) ==
    [parse |-> calculatePhaseTiming(FilterByPhase(evs, {"parse"})),
     bind  |-> calculatePhaseTiming(FilterByPhase(evs, {"bind"})),
     check |-> calculatePhaseTiming(FilterByPhase(evs, {"check", "checkTypes"})),
     emit  |-> calculatePhaseTiming(FilterByPhase(evs, {"emit"}))]

createEmptyTimeline ==
    [totalDuration |-> 0, startTime |-> 0, endTime |-> 0,
     phases |-> [parse |-> EmptyPhase, bind |-> EmptyPhase,
                 check |-> EmptyPhase, emit |-> EmptyPhase],
     files |-> <<>>, events |-> <<>>]

MinStart(evs) ==
    CHOOSE m \in {evs[i].startTime : i \in 1..Len(evs)} :
        \A i \in 1..Len(evs) : m <= evs[i].startTime

MaxEnd(evs) ==
    CHOOSE m \in {evs[i].startTime + evs[i].duration : i \in 1..Len(evs)} :
        \A i \in 1..Len(evs) : m >= evs[i].startTime + evs[i].duration

buildTimeline(evs) ==
    IF Len(evs) = 0 THEN createEmptyTimeline
    ELSE [totalDuration |-> MaxEnd(evs) - MinStart(evs),
          startTime     |-> MinStart(evs),
          endTime       |-> MaxEnd(evs),
          phases        |-> calculatePhaseInfo(evs),
          files         |-> aggregateByFile(evs),
          events        |-> evs]

----------------------------------------------------------------------------
(* Inputs *)

\* Timestamps of the sample trace, in microseconds (not zero-based).
TsValues == {1000 + 500 * k : k \in 0..MaxTick}

RawEvent(ph, pid, tid, name, cat, ts, dur, args) ==
    [pid |-> pid, tid |-> tid, ph |-> ph, cat |-> cat, ts |-> ts,
     name |-> name, dur |-> dur, args |-> args]

\* Begin and End events of one span key at every sample timestamp; the Begin
\* carries the file path.
SpanEvents ==
    { RawEvent(ph, 1, 1, "checkSourceFile", "check", ts, None,
               IF ph = "B" THEN Some([path |-> "/src/a.ts"]) ELSE None) :
        ph \in {"B", "E"}, ts \in TsValues }

\* The same span name and category on another thread.
OtherThreadEvents ==
    { RawEvent("B", 1, 2, "checkSourceFile", "check", 1000, None,
               Some([path |-> "/src/b.ts"])),
      RawEvent("E", 1, 2, "checkSourceFile", "check", 1500, None, None) }

CompleteEvents ==
    { RawEvent("X", 1, 1, "createSourceFile", "parse", 1500, Some(500),
               Some([path |-> "/src/a.ts"])),
      RawEvent("X", 1, 1, "findSourceFile", "program", 1000, None, None) }

OtherEvents ==
    { RawEvent("I", 1, 1, "mark", "program", 1000, None, None),
      RawEvent("M", 1, 1, "process_name", "__metadata", 0, None, None) }

RawUniverse ==
    SpanEvents \cup OtherThreadEvents \cup CompleteEvents \cup OtherEvents

SeqsUpTo(S, n) == UNION { [1..m -> S] : m \in 0..n }

----------------------------------------------------------------------------
(* processEvents, step by step *)

Init ==
    /\ rawEvents \in SeqsUpTo(RawUniverse, MaxEvents)
    /\ pc = "call"
    /\ events = <<>>
    /\ idx = 1
    /\ minTimestamp = 0
    /\ processedEvents = <<>>
    /\ eventStacks = [k \in {} |-> <<>>]
    /\ idCounter = 0
    /\ timeline = None
    /\ arg = None
    /\ result = None
    /\ parse = None
    /\ rangeFilterCache = EmptyCache
    /\ arrays = NoArrays

\* Lines 42-56: filter, early return, sort, minTimestamp.
FilterAndSort ==
    /\ pc = "call"
    /\ LET filtered == FilterNotMetadata(rawEvents)
       IN  IF Len(filtered) = 0
           THEN /\ pc' = "returned"
                /\ UNCHANGED <<events, minTimestamp>>
           ELSE /\ events' = SortByTs(filtered)
                /\ minTimestamp' = events'[1].ts
                /\ pc' = "loop"
    /\ UNCHANGED <<arrays, rangeFilterCache, parse, rawEvents, idx, processedEvents, eventStacks, idCounter,
                   timeline, arg, result>>

InLoop == pc = "loop" /\ idx <= Len(events)

\* Lines 61-71.
ProcessComplete ==
    /\ InLoop
    /\ events[idx].ph = "X"
    /\ processedEvents' = insertSorted(processedEvents, CompleteEvent(events[idx]))
    /\ idCounter' = idCounter + 1
    /\ idx' = idx + 1
    /\ UNCHANGED <<arrays, rangeFilterCache, parse, rawEvents, pc, events, minTimestamp, eventStacks, timeline, arg, result>>

\* Lines 72-80.
ProcessBegin ==
    /\ InLoop
    /\ events[idx].ph = "B"
    /\ LET event == events[idx]
           key == StackKey(event)
           stack == IF key \in DOMAIN eventStacks THEN eventStacks[key] ELSE <<>>
           entry == [event |-> event, startTime |-> event.ts]
       IN  eventStacks' =
               [k \in DOMAIN eventStacks \cup {key} |->
                   IF k = key THEN Append(stack, entry) ELSE eventStacks[k]]
    /\ idx' = idx + 1
    /\ UNCHANGED <<arrays, rangeFilterCache, parse, rawEvents, pc, events, minTimestamp, processedEvents,
                   idCounter, timeline, arg, result>>

HasPending(key) == key \in DOMAIN eventStacks /\ Len(eventStacks[key]) > 0

\* Lines 81-98, the stack holds a begin.
ProcessEnd ==
    /\ InLoop
    /\ events[idx].ph = "E"
    /\ LET event == events[idx]
           key == StackKey(event)
       IN  /\ HasPending(key)
           /\ LET popped == Pop(eventStacks[key])
              IN  /\ eventStacks' = [eventStacks EXCEPT ![key] = popped.rest]
                  /\ processedEvents' =
                         insertSorted(processedEvents,
                                      PairedEvent(popped.entry, event))
    /\ idCounter' = idCounter + 1
    /\ idx' = idx + 1
    /\ UNCHANGED <<arrays, rangeFilterCache, parse, rawEvents, pc, events, minTimestamp, timeline, arg, result>>

\* Lines 83-84 and 99: no stack for the key, or an empty one.
ProcessEndUnmatched ==
    /\ InLoop
    /\ events[idx].ph = "E"
    /\ ~HasPending(StackKey(events[idx]))
    /\ idx' = idx + 1
    /\ UNCHANGED <<arrays, rangeFilterCache, parse, rawEvents, pc, events, minTimestamp, processedEvents,
                   eventStacks, idCounter, timeline, arg, result>>

\* Variant of ProcessOther: an instant event is emitted with duration 0.
ProcessOtherEmitted ==
    /\ InLoop
    /\ events[idx].ph \notin {"X", "B", "E"}
    /\ processedEvents' =
           insertSorted(processedEvents,
                        CompleteEvent([events[idx] EXCEPT !.dur = None]))
    /\ idCounter' = idCounter + 1
    /\ idx' = idx + 1
    /\ UNCHANGED <<arrays, rangeFilterCache, parse, rawEvents, pc, events, minTimestamp, eventStacks, timeline, arg, result>>

\* Any other phase marker falls through the if-chain.
ProcessOther ==
    /\ InLoop
    /\ events[idx].ph \notin {"X", "B", "E"}
    /\ idx' = idx + 1
    /\ UNCHANGED <<arrays, rangeFilterCache, parse, rawEvents, pc, events, minTimestamp, processedEvents,
                   eventStacks, idCounter, timeline, arg, result>>

\* Line 103.
ReturnProcessed ==
    /\ pc = "loop"
    /\ idx > Len(events)
    /\ pc' = "returned"
    /\ UNCHANGED <<arrays, rangeFilterCache, parse, rawEvents, events, idx, minTimestamp, processedEvents,
                   eventStacks, idCounter, timeline, arg, result>>

\* summary.ts 45-46: the processed events go to buildTimeline.
BuildTimeline ==
    /\ pc = "returned"
    /\ timeline' = Some(buildTimeline(processedEvents))
    /\ pc' = "built"
    /\ UNCHANGED <<arrays, rangeFilterCache, parse, rawEvents, events, idx, minTimestamp, processedEvents,
                   eventStacks, idCounter, arg, result>>

Next ==
    \/ FilterAndSort
    \/ ProcessComplete
    \/ ProcessBegin
    \/ ProcessEnd
    \/ ProcessEndUnmatched
    \/ ProcessOther
    \/ ReturnProcessed
    \/ BuildTimeline

Spec == Init /\ [][Next]_vars

----------------------------------------------------------------------------
(* aggregateByFile called on a list of processed events *)

TraceCategories ==
    {"parse", "bind", "check", "checkTypes", "program", "emit", "__metadata"}

Durations == 1..MaxDuration

\* Category, duration and file path of the sample processed events: one file
\* with events of every category, two more files, and events whose path is
\* undefined or the text "__no_file__".
ProcessedShapes ==
    { [category |-> c, duration |-> d, filePath |-> Some("/src/a.ts")] :
        c \in TraceCategories, d \in Durations }
    \cup { [category |-> "check", duration |-> d, filePath |-> Some("/src/b.ts")] :
             d \in Durations }
    \cup { [category |-> "emit", duration |-> d, filePath |-> Some("/lib/c.ts")] :
             d \in Durations }
    \cup { [category |-> "check", duration |-> 1, filePath |-> f] :
             f \in {None, Some("__no_file__")} }

\* The i-th event of a processed list (ids are unique within a list).
ProcessedOf(shape, i) ==
    [id        |-> EventId(i - 1),
     name      |-> "span",
     category  |-> shape.category,
     startTime |-> 0,
     duration  |-> shape.duration,
     filePath  |-> shape.filePath,
     args      |-> None]

ProcessedInputs ==
    { [i \in DOMAIN shapes |-> ProcessedOf(shapes[i], i)] :
        shapes \in SeqsUpTo(ProcessedShapes, MaxProcessed) }

InitAgg ==
    /\ rawEvents = <<>>
    /\ pc = "aggregateByFile"
    /\ events = <<>>
    /\ idx = 1
    /\ minTimestamp = 0
    /\ processedEvents = <<>>
    /\ eventStacks = [k \in {} |-> <<>>]
    /\ idCounter = 0
    /\ timeline = None
    /\ arg \in ProcessedInputs
    /\ result = None
    /\ parse = None
    /\ rangeFilterCache = EmptyCache
    /\ arrays = NoArrays

AggregateByFile ==
    /\ pc = "aggregateByFile"
    /\ result' = Some(aggregateByFile(arg))
    /\ pc' = "aggregated"
    /\ UNCHANGED <<arrays, rangeFilterCache, parse, rawEvents, events, idx, minTimestamp, processedEvents,
                   eventStacks, idCounter, timeline, arg>>

NextAgg == AggregateByFile

SpecAgg == InitAgg /\ [][NextAgg]_vars

----------------------------------------------------------------------------
(* Properties of processEvents *)

Returned == pc \in {"returned", "built"}

SameKey(a, b) ==
    a.pid = b.pid /\ a.tid = b.tid /\ a.name = b.name /\ a.cat = b.cat

\* Number of events of phase ph with the key of e at the positions of `at'.
CountIn(at, ph, e) ==
    Cardinality({k \in at : events[k].ph = ph /\ SameKey(events[k], e)})

\* The End at position j closes the Begin at position i: between them every
\* Begin of the key has found its End, and no End was left over.
Closes(j, i) ==
    /\ i < j
    /\ events[i].ph = "B"
    /\ events[j].ph = "E"
    /\ SameKey(events[i], events[j])
    /\ CountIn((i + 1)..(j - 1), "E", events[i])
           = CountIn((i + 1)..(j - 1), "B", events[i])
    /\ \A m \in (i + 1)..(j - 1) :
           CountIn((i + 1)..m, "E", events[i]) <= CountIn((i + 1)..m, "B", events[i])

HasBeginFor(j) == \E i \in 1..(j - 1) : Closes(j, i)

BeginFor(j) == CHOOSE i \in 1..(j - 1) : Closes(j, i)

\* No Begin of the key of the event at j is pending when the loop reaches j.
NoPendingBegin(j) ==
    \A i \in 1..(j - 1) :
        (events[i].ph = "B" /\ SameKey(events[i], events[j]))
            => \E m \in (i + 1)..(j - 1) : Closes(m, i)

\* The smallest timestamp among the events that are not metadata.
MinRetainedTs ==
    LET ts == {rawEvents[k].ts : k \in {n \in 1..Len(rawEvents) : rawEvents[n].ph # "M"}}
    IN  CHOOSE t \in ts : \A u \in ts : t <= u

\* pe is what the pair (Begin at i, End at j) is to become.  A fixed-point
\* millisecond value v stands for v/1000 ms, so x/1000 ms is the value x.
IsPairOf(pe, i, j) ==
    /\ pe.name = events[i].name
    /\ pe.category = events[i].cat
    /\ pe.startTime = events[i].ts - MinRetainedTs
    /\ pe.duration = events[j].ts - events[i].ts

Without(s, p) == SubSeq(s, 1, p - 1) \o SubSeq(s, p + 1, Len(s))

\* C1: the list built by processEvents is in non-decreasing startTime order
\* at every point of the run and when it is returned.
C1_OutputSorted ==
    \A i, j \in 1..Len(processedEvents) :
        i < j => processedEvents[i].startTime <= processedEvents[j].startTime

\* An End closed a Begin that started before an already emitted Complete
\* event: the later emitted event stands first.
C1_Witness ==
    /\ Returned
    /\ \E p, q \in 1..Len(processedEvents) :
        /\ p < q
        /\ processedEvents[p].id = EventId(1)
        /\ processedEvents[q].id = EventId(0)
        /\ processedEvents[q].name = "createSourceFile"
        /\ processedEvents[p].name = "checkSourceFile"
        /\ processedEvents[p].startTime < processedEvents[q].startTime

\* C2: an End closes the most recent still-pending Begin of its own key
\* (pid, tid, name, category), LIFO, and no Begin of another key: the entry
\* popped is that Begin, and the emitted event carries its name, category and
\* start and the time between the two.
C2_LifoPerKey ==
    [][(InLoop /\ events[idx].ph = "E" /\ HasBeginFor(idx)) =>
          LET key == StackKey(events[idx])
              i == BeginFor(idx)
          IN  /\ key \in DOMAIN eventStacks
              /\ Len(eventStacks[key]) > 0
              /\ eventStacks[key][Len(eventStacks[key])].event = events[i]
              /\ eventStacks'[key] =
                     SubSeq(eventStacks[key], 1, Len(eventStacks[key]) - 1)
              /\ \E p \in 1..Len(processedEvents') :
                     /\ IsPairOf(processedEvents'[p], i, idx)
                     /\ Without(processedEvents', p) = processedEvents]_vars

\* B1, B2, E1, E2 of one key: E1 closed B2 and E2 closed B1, so the outer
\* span is the longer one.
C2_Witness ==
    /\ Returned
    /\ Len(events) = 4
    /\ \A k \in 1..4 : SameKey(events[k], events[1])
    /\ events[1].ph = "B" /\ events[2].ph = "B"
    /\ events[3].ph = "E" /\ events[4].ph = "E"
    /\ events[1].ts < events[2].ts /\ events[3].ts < events[4].ts
    /\ Closes(3, 2) /\ Closes(4, 1)
    /\ Len(processedEvents) = 2
    /\ processedEvents[1].id = EventId(1)
    /\ processedEvents[1].duration = events[4].ts - events[1].ts
    /\ processedEvents[2].id = EventId(0)
    /\ processedEvents[2].duration = events[3].ts - events[2].ts

\* C3: an End with no pending Begin of its key emits nothing, leaves the
\* output and every stack as they are, and the loop goes on to the next event.
C3_UnmatchedEndDropped ==
    [][(InLoop /\ events[idx].ph = "E" /\ NoPendingBegin(idx)) =>
          /\ processedEvents' = processedEvents
          /\ eventStacks' = eventStacks
          /\ idCounter' = idCounter
          /\ pc' = "loop"
          /\ idx' = idx + 1]_vars

\* An End has just been dropped on an emptied stack of its key, with output
\* already emitted and a Begin of another key pending.
C3_Witness ==
    /\ pc = "loop"
    /\ idx > 1
    /\ events[idx - 1].ph = "E"
    /\ NoPendingBegin(idx - 1)
    /\ StackKey(events[idx - 1]) \in DOMAIN eventStacks
    /\ eventStacks[StackKey(events[idx - 1])] = <<>>
    /\ \E k \in DOMAIN eventStacks : eventStacks[k] # <<>>
    /\ processedEvents # <<>>

\* C4: the returned list holds one event per Complete event and one per End
\* that found a pending Begin, and nothing else.
C4_OnlyCompleteAndPairs ==
    Returned =>
        Len(processedEvents) =
            Cardinality({k \in 1..Len(rawEvents) : rawEvents[k].ph = "X"})
            + Cardinality({j \in 1..Len(events) : HasBeginFor(j)})

\* A Begin was never popped, and the trace held an Instant and a Metadata
\* event beside a Complete one.
C4_Witness ==
    /\ Returned
    /\ \E k \in DOMAIN eventStacks : eventStacks[k] # <<>>
    /\ \E k \in 1..Len(rawEvents) : rawEvents[k].ph = "I"
    /\ \E k \in 1..Len(rawEvents) : rawEvents[k].ph = "M"
    /\ Len(processedEvents) = 1

\* C5: with timestamps and durations that are not negative, every processed
\* event has duration >= 0 and startTime >= 0, whatever the input order.
C5_NonNegative ==
    \A p \in 1..Len(processedEvents) :
        processedEvents[p].duration >= 0 /\ processedEvents[p].startTime >= 0

\* The input lists an End before its Begin, and one End before any Begin of
\* its time: the first pair is made after sorting, the early End is dropped.
C5_Witness ==
    /\ Returned
    /\ Len(rawEvents) = 3
    /\ rawEvents[1].ph = "E" /\ rawEvents[2].ph = "B" /\ rawEvents[3].ph = "E"
    /\ SameKey(rawEvents[1], rawEvents[2]) /\ SameKey(rawEvents[3], rawEvents[2])
    /\ rawEvents[2].ts < rawEvents[1].ts
    /\ rawEvents[3].ts < rawEvents[2].ts
    /\ Len(processedEvents) = 1
    /\ processedEvents[1].duration > 0

ExampleTrace ==
    << RawEvent("B", 1, 1, "checkSourceFile", "check", 1000, None,
                Some([path |-> "/src/a.ts"])),
       RawEvent("E", 1, 1, "checkSourceFile", "check", 1500, None, None) >>

\* C6: every matched Begin/End pair appears in the returned list with
\* startTime (begin.ts - minTimestamp)/1000 and duration
\* (end.ts - begin.ts)/1000 and the Begin's name and category; the trace
\* [B check 1000, E check 1500] gives one event of category check, startTime
\* 0, duration 0.5 ms, a check total of 0.5 ms and 0 for parse, bind and emit.
C6_PairTimes ==
    /\ Returned =>
           \A j \in 1..Len(events) :
               HasBeginFor(j) =>
                   \E p \in 1..Len(processedEvents) :
                       IsPairOf(processedEvents[p], BeginFor(j), j)
    /\ (pc = "built" /\ rawEvents = ExampleTrace) =>
           /\ Len(processedEvents) = 1
           /\ processedEvents[1].category = "check"
           /\ processedEvents[1].startTime = 0
           /\ processedEvents[1].duration = 500
           /\ timeline[1].phases.check.totalTime = 500
           /\ timeline[1].phases.parse.totalTime = 0
           /\ timeline[1].phases.bind.totalTime = 0
           /\ timeline[1].phases.emit.totalTime = 0

C6_Witness ==
    /\ pc = "built"
    /\ rawEvents = ExampleTrace
    /\ timeline[1].phases.check.count = 1

----------------------------------------------------------------------------
(* Properties of aggregateByFile *)

Aggregated == pc = "aggregated"

Files == result[1]

\* Positions of the input events whose file path is the text path.
InputOf(path) == {k \in 1..Len(arg) : arg[k].filePath = Some(path)}

RECURSIVE SumOver(_, _)
SumOver(at, cats) ==
    IF at = {} THEN 0
    ELSE LET k == CHOOSE k \in at : TRUE
         IN  (IF arg[k].category \in cats THEN arg[k].duration ELSE 0)
                 + SumOver(at \ {k}, cats)

FirstIndexOf(path) == CHOOSE k \in InputOf(path) : \A m \in InputOf(path) : k <= m

\* Number of entries whose events list holds the event e.
EntriesHolding(e) ==
    Cardinality({n \in 1..Len(Files) :
                    \E m \in 1..Len(Files[n].events) : Files[n].events[m] = e})

\* C7: for every FileEvents entry the four phase times add up to totalTime.
C7_PhaseSumIsTotal ==
    Aggregated =>
        \A n \in 1..Len(Files) :
            Files[n].parseTime + Files[n].bindTime + Files[n].checkTime
                + Files[n].emitTime = Files[n].totalTime

\* An entry with time in two phases and an event of no phase.
C7_Witness ==
    /\ Aggregated
    /\ \E n \in 1..Len(Files) :
        /\ Files[n].parseTime > 0
        /\ Files[n].checkTime > 0
        /\ Files[n].totalTime = Files[n].parseTime + Files[n].checkTime
        /\ \E m \in 1..Len(Files[n].events) :
               Files[n].events[m].category = "program"

\* C8: the entries are in descending totalTime order, and entries with equal
\* totalTime stand in the order in which their paths first appear in the
\* input.
C8_SortedDescending ==
    Aggregated =>
        \A a, b \in 1..Len(Files) :
            a < b =>
                /\ Files[a].totalTime >= Files[b].totalTime
                /\ Files[a].totalTime = Files[b].totalTime =>
                       FirstIndexOf(Files[a].filePath) < FirstIndexOf(Files[b].filePath)

\* Three files: the last one of the input is the slowest and comes first, the
\* other two tie and keep their input order.
C8_Witness ==
    /\ Aggregated
    /\ Len(Files) = 3
    /\ Files[1].filePath = arg[3].filePath[1]
    /\ Files[2].filePath = arg[1].filePath[1]
    /\ Files[3].filePath = arg[2].filePath[1]
    /\ Files[1].totalTime > Files[2].totalTime
    /\ Files[2].totalTime = Files[3].totalTime

\* C9: every event with a defined filePath is in the events list of exactly
\* one entry, the entry of its own path; an event without a filePath is in
\* none; no two entries share a path.
C9_PartitionByPath ==
    Aggregated =>
        /\ \A k \in 1..Len(arg) :
               IF arg[k].filePath # None
               THEN /\ EntriesHolding(arg[k]) = 1
                    /\ \A n \in 1..Len(Files) :
                           (\E m \in 1..Len(Files[n].events) :
                                Files[n].events[m] = arg[k])
                               => Some(Files[n].filePath) = arg[k].filePath
               ELSE EntriesHolding(arg[k]) = 0
        /\ \A a, b \in 1..Len(Files) :
               a # b => Files[a].filePath # Files[b].filePath

Phases == {"parse", "bind", "check", "emit"}

\* C10: per file, parseTime, bindTime and emitTime are the sums of the
\* durations of the file's parse, bind and emit events, checkTime the sum
\* over check and checkTypes; other categories add to no bucket nor to
\* totalTime; getPhase maps the categories the same way.
C10_BucketsByCategory ==
    /\ Aggregated =>
           \A n \in 1..Len(Files) :
               LET at == InputOf(Files[n].filePath)
               IN  /\ Files[n].parseTime = SumOver(at, {"parse"})
                   /\ Files[n].bindTime = SumOver(at, {"bind"})
                   /\ Files[n].checkTime = SumOver(at, {"check", "checkTypes"})
                   /\ Files[n].emitTime = SumOver(at, {"emit"})
                   /\ Files[n].totalTime =
                          SumOver(at, {"parse", "bind", "check", "checkTypes", "emit"})
    /\ \A c \in Phases : getPhase(c) = Some(c)
    /\ getPhase("checkTypes") = Some("check")
    /\ getPhase("program") = None
    /\ getPhase("__metadata") = None

\* A file with a check, a checkTypes and a program event: checkTime is the
\* sum of the first two and so is totalTime.
C10_Witness ==
    /\ Aggregated
    /\ Len(arg) = 3
    /\ arg[1].category = "check"
    /\ arg[2].category = "checkTypes"
    /\ arg[3].category = "program"
    /\ Len(Files) = 1
    /\ Files[1].checkTime = arg[1].duration + arg[2].duration
    /\ Files[1].totalTime = Files[1].checkTime

----------------------------------------------------------------------------
(* extractLocationsFromFile *)

\* SYNTAX_KIND_NAMES as the set of its (code, name) entries.
SyntaxKindTable ==
    { <<79, "Identifier">>, <<80, "PrivateIdentifier">>,
      <<106, "ThisKeyword">>, <<108, "SuperKeyword">>,
      <<110, "TrueKeyword">>, <<95, "FalseKeyword">>, <<104, "NullKeyword">>,
      <<9, "NumericLiteral">>, <<10, "BigIntLiteral">>,
      <<11, "StringLiteral">>, <<14, "RegularExpressionLiteral">>,
      <<15, "NoSubstitutionTemplateLiteral">>, <<228, "TemplateExpression">>,
      <<209, "ArrayLiteralExpression">>, <<210, "ObjectLiteralExpression">>,
      <<211, "PropertyAccessExpression">>,
      <<212, "ElementAccessExpression">>, <<213, "CallExpression">>,
      <<214, "NewExpression">>, <<216, "TypeAssertionExpression">>,
      <<217, "ParenthesizedExpression">>, <<218, "FunctionExpression">>,
      <<219, "ArrowFunction">>, <<220, "DeleteExpression">>,
      <<221, "TypeOfExpression">>, <<222, "VoidExpression">>,
      <<223, "AwaitExpression">>, <<224, "PrefixUnaryExpression">>,
      <<225, "PostfixUnaryExpression">>, <<226, "BinaryExpression">>,
      <<227, "ConditionalExpression">>, <<229, "YieldExpression">>,
      <<230, "SpreadElement">>, <<231, "ClassExpression">>,
      <<233, "OmittedExpression">>, <<234, "ExpressionWithTypeArguments">>,
      <<235, "AsExpression">>, <<236, "NonNullExpression">>,
      <<237, "MetaProperty">>, <<238, "TaggedTemplateExpression">>,
      <<239, "SatisfiesExpression">>, <<262, "FunctionDeclaration">>,
      <<263, "ClassDeclaration">>, <<264, "InterfaceDeclaration">>,
      <<265, "TypeAliasDeclaration">>, <<266, "EnumDeclaration">>,
      <<267, "ModuleDeclaration">>, <<243, "Block">>,
      <<244, "EmptyStatement">>, <<245, "VariableStatement">>,
      <<246, "ExpressionStatement">>, <<247, "IfStatement">>,
      <<248, "DoStatement">>, <<249, "WhileStatement">>,
      <<250, "ForStatement">>, <<251, "ForInStatement">>,
      <<252, "ForOfStatement">>, <<253, "ContinueStatement">>,
      <<254, "BreakStatement">>, <<255, "ReturnStatement">>,
      <<256, "WithStatement">>, <<257, "SwitchStatement">>,
      <<258, "LabeledStatement">>, <<259, "ThrowStatement">>,
      <<260, "TryStatement">>, <<182, "TypeReference">>,
      <<183, "FunctionType">>, <<184, "ConstructorType">>,
      <<185, "TypeQuery">>, <<186, "TypeLiteral">>, <<187, "ArrayType">>,
      <<188, "TupleType">>, <<189, "OptionalType">>, <<190, "RestType">>,
      <<191, "UnionType">>, <<192, "IntersectionType">>,
      <<193, "ConditionalType">>, <<194, "InferType">>,
      <<195, "ParenthesizedType">>, <<196, "ThisType">>,
      <<197, "TypeOperator">>, <<198, "IndexedAccessType">>,
      <<199, "MappedType">>, <<200, "LiteralType">>,
      <<201, "NamedTupleMember">>, <<202, "TemplateLiteralType">>,
      <<283, "JsxElement">>, <<284, "JsxSelfClosingElement">>,
      <<285, "JsxOpeningElement">>, <<286, "JsxClosingElement">>,
      <<287, "JsxFragment">>, <<290, "JsxAttribute">>,
      <<291, "JsxSpreadAttribute">>, <<292, "JsxExpression">>,
      <<303, "SourceFile">>, <<308, "JSDocComment">> }

SYNTAX_KIND_NAMES == [k \in {e[1] : e \in SyntaxKindTable} |->
                         (CHOOSE e \in SyntaxKindTable : e[1] = k)[2]]

\* SYNTAX_KIND_NAMES[kind] || `SyntaxKind(${kind})`
getSyntaxKindName(kind) ==
    IF kind \in DOMAIN SYNTAX_KIND_NAMES
    THEN SYNTAX_KIND_NAMES[kind]
    ELSE "SyntaxKind(" \o ToString(kind) \o ")"

\* 0.1 ms, the noise threshold of the location list, in fixed point.
NoiseThreshold == 100

LocationKey(pos, end) == ToString(pos) \o ":" \o ToString(end)

\* The index of the location of key in the Map, 0 when there is none.
LocationIndex(locationMap, key) ==
    IF \E i \in 1..Len(locationMap) : locationMap[i].key = key
    THEN CHOOSE i \in 1..Len(locationMap) : locationMap[i].key = key
    ELSE 0

\* Lines 327-334: sourceId and targetId, when present.
TypeIdsOf(a) ==
    (IF "sourceId" \in DOMAIN a THEN <<a.sourceId>> ELSE <<>>)
        \o (IF "targetId" \in DOMAIN a THEN <<a.targetId>> ELSE <<>>)

\* Variant of MergeLocation: the duration of the last event replaces the sum.
MergeLocationOverwriting(existing, event, a) ==
    [existing EXCEPT !.duration = event.duration]

\* Lines 341-352: the event is added to the location it shares its range with.
MergeLocation(existing, event, a) ==
    LET typeIds == TypeIdsOf(a)
        codeSnippet == ArgOf(a, "codeSnippet")
        adopt == ~Truthy(existing.codeSnippet) /\ Truthy(codeSnippet)
    IN  [existing EXCEPT
            !.duration = @ + event.duration,
            !.typeIds = IF Len(typeIds) > 0
                        THEN Some((IF @ = None THEN <<>> ELSE @[1]) \o typeIds)
                        ELSE @,
            !.codeSnippet = IF adopt THEN codeSnippet ELSE @,
            !.lineNumber = IF adopt THEN ArgOf(a, "lineNumber") ELSE @,
            !.columnNumber = IF adopt THEN ArgOf(a, "columnNumber") ELSE @]

\* Lines 353-365.
NewLocation(event, a) ==
    LET typeIds == TypeIdsOf(a)
        kind == IF "kind" \in DOMAIN a THEN a.kind ELSE 0
    IN  [pos          |-> a.pos,
         end          |-> a.end,
         kind         |-> kind,
         kindName     |-> getSyntaxKindName(kind),
         duration     |-> event.duration,
         eventName    |-> event.name,
         typeIds      |-> IF Len(typeIds) > 0 THEN Some(typeIds) ELSE None,
         codeSnippet  |-> ArgOf(a, "codeSnippet"),
         lineNumber   |-> ArgOf(a, "lineNumber"),
         columnNumber |-> ArgOf(a, "columnNumber")]

\* Lines 314-367: the Map from `${pos}:${end}` to CodeLocation, in insertion
\* order.
RECURSIVE LocationLoop(_, _)
LocationLoop(evs, locationMap) ==
    IF evs = <<>> THEN locationMap
    ELSE LET event == Head(evs)
         IN  IF event.args = None
                \/ "pos" \notin DOMAIN event.args[1]
                \/ "end" \notin DOMAIN event.args[1]
             THEN LocationLoop(Tail(evs), locationMap)
             ELSE LET a == event.args[1]
                      key == LocationKey(a.pos, a.end)
                      at == LocationIndex(locationMap, key)
                  IN  LocationLoop(Tail(evs),
                          IF at # 0
                          THEN [locationMap EXCEPT
                                   ![at].location =
                                       MergeLocation(@, event, a)]
                          ELSE Append(locationMap,
                                      [key |-> key,
                                       location |-> NewLocation(event, a)]))

\* Array.from(locationMap.values())
RECURSIVE MapValues(_)
MapValues(locationMap) ==
    IF locationMap = <<>> THEN <<>>
    ELSE <<Head(locationMap).location>> \o MapValues(Tail(locationMap))

\* Variant of FilterNoise: a location at the threshold is kept.
RECURSIVE FilterNoiseInclusive(_)
FilterNoiseInclusive(locs) ==
    IF locs = <<>> THEN <<>>
    ELSE IF Head(locs).duration >= NoiseThreshold
         THEN <<Head(locs)>> \o FilterNoiseInclusive(Tail(locs))
         ELSE FilterNoiseInclusive(Tail(locs))

\* .filter((loc) => loc.duration > 0.1)
RECURSIVE FilterNoise(_)
FilterNoise(locs) ==
    IF locs = <<>> THEN <<>>
    ELSE IF Head(locs).duration > NoiseThreshold
         THEN <<Head(locs)>> \o FilterNoise(Tail(locs))
         ELSE FilterNoise(Tail(locs))

\* .sort((a, b) => b.duration - a.duration), stable.
RECURSIVE InsertByDurationDesc(_, _)
InsertByDurationDesc(sorted, loc) ==
    IF sorted = <<>> THEN <<loc>>
    ELSE IF loc.duration - Head(sorted).duration > 0
         THEN <<loc>> \o sorted
         ELSE <<Head(sorted)>> \o InsertByDurationDesc(Tail(sorted), loc)

RECURSIVE SortByDurationDesc(_)
SortByDurationDesc(s) ==
    IF s = <<>> THEN <<>>
    ELSE InsertByDurationDesc(SortByDurationDesc(SubSeq(s, 1, Len(s) - 1)),
                              s[Len(s)])

RECURSIVE SumDurations(_)
SumDurations(locs) ==
    IF locs = <<>> THEN 0 ELSE Head(locs).duration + SumDurations(Tail(locs))

extractLocationsFromFile(evs, filePath, shortPath) ==
    LET locations ==
            SortByDurationDesc(FilterNoise(MapValues(LocationLoop(evs, <<>>))))
    IN  [filePath  |-> filePath,
         shortPath |-> shortPath,
         totalTime |-> SumDurations(locations),
         locations |-> locations]

(* extractLocationsFromFile called on the events of one file *)

MaxLocEvents == 3

\* The variables of processEvents, which the direct calls below leave alone.
processorVars == <<rawEvents, events, idx, minTimestamp, processedEvents,
                   eventStacks, idCounter, timeline>>

ProcessorIdle ==
    /\ rawEvents = <<>>
    /\ events = <<>>
    /\ idx = 1
    /\ minTimestamp = 0
    /\ processedEvents = <<>>
    /\ eventStacks = [k \in {} |-> <<>>]
    /\ idCounter = 0
    /\ timeline = None

LocationShape(name, category, duration, args) ==
    [name |-> name, category |-> category, duration |-> duration,
     args |-> args]

\* Events of /src/a.ts: checks of two source ranges whose durations sum to
\* below, at and above the noise threshold, a parse event with a range, a
\* relation check with type ids and a snippet, and events without a range.
LocationShapes ==
    { LocationShape("checkExpression", "check", d,
                    Some([pos |-> r[1], end |-> r[2], kind |-> 213])) :
        r \in {<<0, 10>>, <<10, 20>>}, d \in {40, 60, 120} }
    \cup { LocationShape("createSourceFile", "parse", 60,
                         Some([pos |-> 0, end |-> 10])),
           LocationShape("structuredTypeRelatedTo", "check", 40,
                         Some([pos |-> 10, end |-> 20, kind |-> 999,
                               sourceId |-> 7, targetId |-> 8,
                               codeSnippet |-> "f(x)", lineNumber |-> 3,
                               columnNumber |-> 1])),
           LocationShape("checkDeferredNode", "check", 120,
                         Some([pos |-> 0])),
           LocationShape("checkSourceFile", "check", 120, None) }

LocationEventOf(shape, i) ==
    [id        |-> EventId(i - 1),
     name      |-> shape.name,
     category  |-> shape.category,
     startTime |-> 0,
     duration  |-> shape.duration,
     filePath  |-> Some("/src/a.ts"),
     args      |-> shape.args]

LocationInputs ==
    { [i \in DOMAIN shapes |-> LocationEventOf(shapes[i], i)] :
        shapes \in SeqsUpTo(LocationShapes, MaxLocEvents) }

InitLoc ==
    /\ ProcessorIdle
    /\ parse = None
    /\ rangeFilterCache = EmptyCache
    /\ arrays = NoArrays
    /\ pc = "extractLocationsFromFile"
    /\ arg \in LocationInputs
    /\ result = None

ExtractLocationsFromFile ==
    /\ pc = "extractLocationsFromFile"
    /\ result' = Some(extractLocationsFromFile(arg, "/src/a.ts", "a.ts"))
    /\ pc' = "extracted"
    /\ UNCHANGED <<arrays, rangeFilterCache, processorVars, parse, arg>>

NextLoc == ExtractLocationsFromFile

SpecLoc == InitLoc /\ [][NextLoc]_vars

(* Properties of extractLocationsFromFile *)

Extracted == pc = "extracted"

\* The source range of an event, when it carries both pos and end.
HasRange(e) ==
    /\ e.args # None
    /\ "pos" \in DOMAIN e.args[1]
    /\ "end" \in DOMAIN e.args[1]

RangeOf(e) == <<e.args[1].pos, e.args[1].end>>

RangesOf(evs) == { RangeOf(evs[i]) : i \in { j \in DOMAIN evs : HasRange(evs[j]) } }

RECURSIVE DurationAt(_, _)
DurationAt(evs, r) ==
    IF evs = <<>> THEN 0
    ELSE (IF HasRange(Head(evs)) /\ RangeOf(Head(evs)) = r
          THEN Head(evs).duration ELSE 0) + DurationAt(Tail(evs), r)

\* Locs is a list of locations of the events evs: one per range, each with
\* the summed duration of the events of its range.
MergedByRange(locs, evs) ==
    /\ \A i, j \in DOMAIN locs :
           (locs[i].pos = locs[j].pos /\ locs[i].end = locs[j].end) => i = j
    /\ \A i \in DOMAIN locs :
           /\ <<locs[i].pos, locs[i].end>> \in RangesOf(evs)
           /\ locs[i].duration = DurationAt(evs, <<locs[i].pos, locs[i].end>>)

C12_AboveNoiseDescending ==
    Extracted =>
        LET returned == result[1].locations
        IN  /\ { <<returned[i].pos, returned[i].end>> : i \in DOMAIN returned }
                   = { r \in RangesOf(arg) : DurationAt(arg, r) > 100 }
            /\ Len(returned)
                   = Cardinality({ r \in RangesOf(arg) : DurationAt(arg, r) > 100 })
            /\ \A i \in DOMAIN returned :
                   returned[i].duration
                       = DurationAt(arg, <<returned[i].pos, returned[i].end>>)
            /\ \A i \in 1..(Len(returned) - 1) :
                   returned[i].duration >= returned[i + 1].duration

\* A range whose durations sum to exactly 0.1 ms was left out and the other
\* range, above 0.1 ms, was returned.
C12_Witness ==
    /\ Extracted
    /\ Len(arg) = 3
    /\ HasRange(arg[1]) /\ HasRange(arg[2]) /\ HasRange(arg[3])
    /\ DurationAt(arg, <<0, 10>>) = 100
    /\ Len(result[1].locations) = 1
    /\ result[1].locations[1].duration = 120

----------------------------------------------------------------------------
(* getTopN *)

MaxItems == 4
MaxTopN == 3

\* The getValue callbacks of the callers read one property of the item:
\* (f) => f.parseTime, (f) => f.checkTime, (item) => item.value.
getValue(item, property) == item[property]

\* Stable insertion of item into a list sorted by value, ascending or
\* descending: items of equal value keep their order.
RECURSIVE InsertByValue(_, _, _, _)
InsertByValue(sorted, item, descending, property) ==
    IF sorted = <<>> THEN <<item>>
    ELSE LET d == getValue(item, property) - getValue(Head(sorted), property)
         IN  IF (descending /\ d > 0) \/ (~descending /\ d < 0)
             THEN <<item>> \o sorted
             ELSE <<Head(sorted)>>
                      \o InsertByValue(Tail(sorted), item, descending, property)

\* Array.prototype.sort with (a, b) => getValue(a) - getValue(b), or with
\* (a, b) => getValue(b) - getValue(a) when descending.
RECURSIVE SortByValue(_, _, _)
SortByValue(s, descending, property) ==
    IF s = <<>> THEN <<>>
    ELSE InsertByValue(SortByValue(SubSeq(s, 1, Len(s) - 1), descending,
                                   property),
                       s[Len(s)], descending, property)

Reverse(s) == [i \in DOMAIN s |-> s[Len(s) + 1 - i]]

\* Variant of TopNLoop: an item larger than the smallest kept one is not
\* taken once n items are kept.
RECURSIVE TopNLoopFirstN(_, _, _, _)
TopNLoopFirstN(items, n, property, kept) ==
    IF items = <<>> THEN [threw |-> FALSE, value |-> kept]
    ELSE IF Len(kept) < n
         THEN TopNLoopFirstN(Tail(items), n, property,
                             SortByValue(Append(kept, Head(items)), FALSE,
                                         property))
         ELSE IF kept = <<>>
              THEN [threw |-> TRUE, value |-> <<>>]
              ELSE TopNLoopFirstN(Tail(items), n, property, kept)

\* Lines 42-52: the working set `result`, kept ascending. With n = 0 the
\* working set is empty, result[0] is undefined and getValue(result[0])
\* throws a TypeError.
RECURSIVE TopNLoop(_, _, _, _)
TopNLoop(items, n, property, kept) ==
    IF items = <<>> THEN [threw |-> FALSE, value |-> kept]
    ELSE LET item == Head(items)
             value == getValue(item, property)
         IN  IF Len(kept) < n
             THEN TopNLoop(Tail(items), n, property,
                           SortByValue(Append(kept, item), FALSE, property))
             ELSE IF kept = <<>>
                  THEN [threw |-> TRUE, value |-> <<>>]
                  ELSE IF value > getValue(kept[1], property)
                       THEN TopNLoop(Tail(items), n, property,
                                     SortByValue([kept EXCEPT ![1] = item],
                                                 FALSE, property))
                       ELSE TopNLoop(Tail(items), n, property, kept)

getTopN(items, n, property) ==
    IF Len(items) <= n
    THEN [threw |-> FALSE, value |-> SortByValue(items, TRUE, property)]
    ELSE LET r == TopNLoop(items, n, property, <<>>)
         IN  [threw |-> r.threw, value |-> Reverse(r.value)]

(* getTopN called directly *)

\* Objects with a value, two of them of equal value.
ValueItems ==
    { [name |-> "a", value |-> 10], [name |-> "b", value |-> 10],
      [name |-> "c", value |-> 20], [name |-> "d", value |-> 30] }

TopNInputs ==
    { [items |-> items, n |-> n] :
        items \in SeqsUpTo(ValueItems, MaxItems), n \in 0..MaxTopN }

InitTopN ==
    /\ ProcessorIdle
    /\ parse = None
    /\ rangeFilterCache = EmptyCache
    /\ arrays = NoArrays
    /\ pc = "getTopN"
    /\ arg \in TopNInputs
    /\ result = None

\* The call, with (item) => item.value, returns a list or throws.
GetTopN ==
    /\ pc = "getTopN"
    /\ LET r == getTopN(arg.items, arg.n, "value")
       IN  /\ result' = IF r.threw THEN None ELSE Some(r.value)
           /\ pc' = IF r.threw THEN "threw" ELSE "gotTopN"
    /\ UNCHANGED <<arrays, rangeFilterCache, processorVars, parse, arg>>

NextTopN == GetTopN

SpecTopN == InitTopN /\ [][NextTopN]_vars

(* Properties of getTopN *)

Min(a, b) == IF a <= b THEN a ELSE b

\* The number of places of s that hold an element satisfying Test.
CountWhere(s, Test(_)) == Cardinality({ i \in DOMAIN s : Test(s[i]) })

\* C13: for every k >= 0, k = 0 included, and every item list, getTopN
\* returns exactly min(k, items.length) items and does not throw.
C13_ReturnsMinOfKAndLength ==
    pc \in {"gotTopN", "threw"} =>
        /\ pc # "threw"
        /\ Len(result[1]) = Min(arg.n, Len(arg.items))

\* C14: for k >= 1 the returned items are in descending order of value,
\* their values are the values of the first min(k, items.length) places of a
\* full descending sort (each value v is returned as often as it occurs
\* among the items, as far as the places left by the larger values allow),
\* and every returned item is an item of the list, so that with distinct
\* values the list is that prefix of the full descending sort.
C14_TopOfDescendingSort ==
    (pc \in {"gotTopN", "threw"} /\ arg.n >= 1) =>
        /\ pc = "gotTopN"
        /\ LET items == arg.items
               top == result[1]
               m == Min(arg.n, Len(items))
               V(x) == x.value
           IN  /\ Len(top) = m
               /\ \A i \in 1..(Len(top) - 1) : V(top[i]) >= V(top[i + 1])
               /\ \A j \in DOMAIN items :
                      LET v == V(items[j])
                          IsV(x) == V(x) = v
                          Above(x) == V(x) > v
                          left == m - CountWhere(items, Above)
                      IN  CountWhere(top, IsV)
                              = Min(CountWhere(items, IsV),
                                    IF left > 0 THEN left ELSE 0)
               /\ \A i \in DOMAIN top :
                      LET Same(x) == x = top[i]
                      IN  /\ CountWhere(items, Same) >= CountWhere(top, Same)
                          /\ V(top[i]) \in { V(items[j]) : j \in DOMAIN items }

\* The bounded working set replaced its smallest item twice: four items in
\* ascending order, the first two of equal value, and k = 2 give the last
\* two, largest first.
C14_Witness ==
    /\ pc = "gotTopN"
    /\ arg.n = 2
    /\ Len(arg.items) = 4
    /\ \A i \in 1..3 : arg.items[i].value <= arg.items[i + 1].value
    /\ arg.items[1].value = arg.items[2].value
    /\ result[1] = <<arg.items[4], arg.items[3]>>

----------------------------------------------------------------------------
(* quickselect *)

MaxArr == 5
MaxValue == 3

\* Variant of quickselect: the pivot is returned whenever the rank is not
\* among the lows.
RECURSIVE quickselectNeverHigh(_, _)
quickselectNeverHigh(arr, k) ==
    IF Len(arr) = 1 THEN arr[1]
    ELSE LET pivot == arr[(Len(arr) \div 2) + 1]
             Lower(num) == num < pivot
             lows == SelectSeq(arr, Lower)
         IN  IF k < Len(lows) THEN quickselectNeverHigh(lows, k) ELSE pivot

\* k is a 0-based rank; arr[(Len(arr) \div 2) + 1] is arr[Math.floor(length / 2)].
\* The loop of lines 82-86 puts every number, in order, into lows, highs or
\* pivots.
RECURSIVE quickselect(_, _)
quickselect(arr, k) ==
    IF Len(arr) = 1 THEN arr[1]
    ELSE LET pivot == arr[(Len(arr) \div 2) + 1]
             Lower(num) == num < pivot
             Higher(num) == ~(num < pivot) /\ num > pivot
             Neither(num) == ~(num < pivot) /\ ~(num > pivot)
             lows == SelectSeq(arr, Lower)
             highs == SelectSeq(arr, Higher)
             pivots == SelectSeq(arr, Neither)
         IN  IF k < Len(lows) THEN quickselect(lows, k)
             ELSE IF k < Len(lows) + Len(pivots) THEN pivot
             ELSE quickselect(highs, k - Len(lows) - Len(pivots))

(* quickselect called directly *)

SelectInputs ==
    { [arr |-> arr, k |-> k] :
        arr \in SeqsUpTo(1..MaxValue, MaxArr) \ {<<>>}, k \in 0..(MaxArr - 1) }

\* A non-empty array and a rank within it.
InitSelect ==
    /\ ProcessorIdle
    /\ parse = None
    /\ rangeFilterCache = EmptyCache
    /\ arrays = NoArrays
    /\ pc = "quickselect"
    /\ arg \in { in \in SelectInputs : in.k < Len(in.arr) }
    /\ result = None

\* The call reads arr and builds new arrays; arr is assigned nowhere.
Quickselect ==
    /\ pc = "quickselect"
    /\ result' = Some(quickselect(arg.arr, arg.k))
    /\ pc' = "selected"
    /\ UNCHANGED <<arrays, rangeFilterCache, processorVars, parse, arg>>

NextSelect == Quickselect

SpecSelect == InitSelect /\ [][NextSelect]_vars

(* Properties of quickselect *)

\* v is the element at 0-based index k of arr sorted ascending: at most k
\* elements are smaller and more than k are not larger.
IsKthSmallest(arr, k, v) ==
    /\ \E i \in DOMAIN arr : arr[i] = v
    /\ Cardinality({ i \in DOMAIN arr : arr[i] < v }) <= k
    /\ Cardinality({ i \in DOMAIN arr : arr[i] <= v }) > k

----------------------------------------------------------------------------
(* IEEE 754 double arithmetic of the percentile index *)

\* A positive double is [bits, exp]: a significand of SignificandBits binary
\* digits, most significant first and leading digit 1, standing for the
\* integer they spell times 2^exp. Zero is the empty significand. Long
\* numbers are handled in words of WordBits digits.
SignificandBits == 53
WordBits == 16
WordBase == 2 ^ WordBits

DoubleZero == [bits |-> <<>>, exp |-> 0]

\* The binary digits of a natural number, <<>> for 0.
RECURSIVE NatBits(_)
NatBits(n) == IF n = 0 THEN <<>> ELSE Append(NatBits(n \div 2), n % 2)

RECURSIVE BitsToNat(_)
BitsToNat(bits) ==
    IF bits = <<>> THEN 0
    ELSE 2 * BitsToNat(SubSeq(bits, 1, Len(bits) - 1)) + bits[Len(bits)]

\* bits with zeros in front, to the width w.
Pad(bits, w) ==
    [i \in 1..w |-> IF i <= w - Len(bits) THEN 0 ELSE bits[i - (w - Len(bits))]]

\* bits without its leading zeros.
StripZeros(bits) ==
    IF \A i \in DOMAIN bits : bits[i] = 0 THEN <<>>
    ELSE LET first == CHOOSE i \in DOMAIN bits :
                          /\ bits[i] = 1
                          /\ \A j \in 1..(i - 1) : bits[j] = 0
         IN  SubSeq(bits, first, Len(bits))

\* bits + 1; a carry out of the first digit makes the result one digit longer.
Increment(bits) ==
    IF \A i \in DOMAIN bits : bits[i] = 1
    THEN <<1>> \o [i \in DOMAIN bits |-> 0]
    ELSE LET last == CHOOSE i \in DOMAIN bits :
                         /\ bits[i] = 0
                         /\ \A j \in (i + 1)..Len(bits) : bits[j] = 1
         IN  [i \in DOMAIN bits |->
                 IF i < last THEN bits[i] ELSE IF i = last THEN 1 ELSE 0]

\* Round to nearest, ties to even: the digits of bits * 2^exp beyond the
\* significand are dropped and the significand goes up when they are more
\* than half a unit, or exactly half and the significand is odd.
RoundNearestEven(bits, exp) ==
    LET extra == Len(bits) - SignificandBits
        kept == SubSeq(bits, 1, SignificandBits)
        dropped == SubSeq(bits, SignificandBits + 1, Len(bits))
        up == /\ extra > 0
              /\ dropped[1] = 1
              /\ \/ \E i \in 2..extra : dropped[i] = 1
                 \/ kept[SignificandBits] = 1
        raised == Increment(kept)
    IN  IF ~up THEN [bits |-> kept, exp |-> exp + extra]
        ELSE IF Len(raised) > SignificandBits
             THEN [bits |-> SubSeq(raised, 1, SignificandBits),
                   exp |-> exp + extra + 1]
             ELSE [bits |-> raised, exp |-> exp + extra]

\* The first count words of the binary fraction r / d, by long division, and
\* the remainder left.
RECURSIVE DivideLoop(_, _, _)
DivideLoop(r, d, count) ==
    IF count = 0 THEN [bits |-> <<>>, rem |-> r]
    ELSE LET rest == DivideLoop((r * WordBase) % d, d, count - 1)
         IN  [bits |-> Pad(NatBits((r * WordBase) \div d), WordBits) \o rest.bits,
              rem |-> rest.rem]

\* a / b in doubles, for naturals a and 0 < b < 2^14: the quotient to two
\* digits more than the significand, one more digit that is 1 when anything
\* is left beyond them, rounded.
DoubleDivide(a, b) ==
    IF a = 0 THEN DoubleZero
    ELSE LET words == 5
             frac == DivideLoop(a % b, b, words)
             digits == StripZeros(NatBits(a \div b) \o frac.bits)
             lead == SubSeq(digits, 1, SignificandBits + 2)
             tail == SubSeq(digits, SignificandBits + 3, Len(digits))
             sticky == IF frac.rem # 0 \/ \E i \in DOMAIN tail : tail[i] = 1
                       THEN 1 ELSE 0
         IN  RoundNearestEven(Append(lead, sticky),
                              Len(digits) - (SignificandBits + 3)
                                  - words * WordBits)

\* words * n + carry, for a number given in words and a natural n < 2^14.
RECURSIVE TimesLoop(_, _, _)
TimesLoop(words, n, carry) ==
    IF words = <<>> THEN NatBits(carry)
    ELSE LET t == words[Len(words)] * n + carry
         IN  TimesLoop(SubSeq(words, 1, Len(words) - 1), n, t \div WordBase)
                 \o Pad(NatBits(t % WordBase), WordBits)

\* x * n in doubles, for a double x and a natural n < 2^14.
DoubleTimes(x, n) ==
    IF x.bits = <<>> \/ n = 0 THEN DoubleZero
    ELSE LET count == 4
             padded == Pad(x.bits, count * WordBits)
             words == [k \in 1..count |->
                          BitsToNat(SubSeq(padded, (k - 1) * WordBits + 1,
                                           k * WordBits))]
         IN  RoundNearestEven(StripZeros(TimesLoop(words, n, 0)), x.exp)

\* Math.ceil of a double below 2^31.
MathCeil(x) ==
    IF x.bits = <<>> THEN 0
    ELSE IF x.exp >= 0
         THEN BitsToNat(x.bits \o [i \in 1..x.exp |-> 0])
         ELSE IF -x.exp >= Len(x.bits) THEN 1
              ELSE LET whole == SubSeq(x.bits, 1, Len(x.bits) + x.exp)
                       part == SubSeq(x.bits, Len(x.bits) + x.exp + 1,
                                      Len(x.bits))
                   IN  BitsToNat(whole)
                           + (IF \E i \in DOMAIN part : part[i] = 1
                              THEN 1 ELSE 0)

----------------------------------------------------------------------------
(* calculatePercentilesFromNumbers *)

MaxPctLen == 3
MaxShift == 1

QuickselectMinLength == 100
QuickselectMaxPercentiles == 5

\* [...values].sort((a, b) => a - b): place i holds the value with fewer
\* than i smaller values and at least i values not larger.
SortedAscending(values) ==
    [i \in DOMAIN values |->
        CHOOSE v \in { values[j] : j \in DOMAIN values } :
            /\ Cardinality({ j \in DOMAIN values : values[j] < v }) < i
            /\ Cardinality({ j \in DOMAIN values : values[j] <= v }) >= i]

\* Math.ceil((p / 100) * length) - 1, in doubles.
PercentileIndex(p, length) ==
    MathCeil(DoubleTimes(DoubleDivide(p, 100), length)) - 1

MathMax(a, b) == IF a >= b THEN a ELSE b

\* The Map returned, as a function of the percentiles requested.
calculatePercentilesFromNumbers(values, percentiles) ==
    LET requested == { percentiles[i] : i \in DOMAIN percentiles }
    IN  IF Len(values) = 0
        THEN [p \in requested |-> 0]
        ELSE IF Len(values) < QuickselectMinLength
                \/ Len(percentiles) > QuickselectMaxPercentiles
             THEN LET sorted == SortedAscending(values)
                  IN  [p \in requested |->
                          sorted[MathMax(0, PercentileIndex(p, Len(sorted))) + 1]]
             ELSE [p \in requested |->
                      quickselect(values,
                                  MathMax(0, PercentileIndex(p, Len(values))))]

(* calculatePercentilesFromNumbers called directly *)

\* The values 1..n, rotated by shift places.
Ramp(n, shift) == [i \in 1..n |-> ((i - 1 + shift) % n) + 1]

\* Short lists of all shapes, the empty one included, and ramps below and at
\* the length from which quickselect is used.
PercentileValues ==
    SeqsUpTo(1..MaxValue, MaxPctLen)
        \cup { Ramp(n, shift) : n \in {25, 100}, shift \in 0..MaxShift }

\* The default percentiles, six percentiles (more than quickselect is used
\* for), and single ones.
PercentileLists ==
    { <<50, 90, 95, 99>>, <<0, 25, 50, 75, 90, 100>> }
        \cup { <<p>> : p \in {0, 7, 28, 100} }

InitPct ==
    /\ ProcessorIdle
    /\ parse = None
    /\ rangeFilterCache = EmptyCache
    /\ arrays = NoArrays
    /\ pc = "calculatePercentilesFromNumbers"
    /\ arg \in [values : PercentileValues, percentiles : PercentileLists]
    /\ result = None

CalculatePercentiles ==
    /\ pc = "calculatePercentilesFromNumbers"
    /\ result' = Some(calculatePercentilesFromNumbers(arg.values,
                                                      arg.percentiles))
    /\ pc' = "gotPercentiles"
    /\ UNCHANGED <<arrays, rangeFilterCache, processorVars, parse, arg>>

NextPct == CalculatePercentiles

SpecPct == InitPct /\ [][NextPct]_vars

(* Properties of calculatePercentilesFromNumbers *)

\* C15: for a non-empty list of n values every requested percentile p is
\* mapped to the element at index max(0, ceil(p*n/100) - 1) of the values
\* sorted ascending, on the sort path and on the quickselect path alike; the
\* values 1..100 give 50 for p = 50 and 90 for p = 90; for an empty list
\* every requested percentile is mapped to 0.
C15_NearestRank ==
    pc = "gotPercentiles" =>
        LET values == arg.values
            n == Len(values)
            got == result[1]
        IN  /\ DOMAIN got = { arg.percentiles[i] : i \in DOMAIN arg.percentiles }
            /\ n = 0 => \A p \in DOMAIN got : got[p] = 0
            /\ n > 0 =>
                   \A p \in DOMAIN got :
                       LET exact == ((p * n + 99) \div 100) - 1
                       IN  got[p] = SortedAscending(values)
                                        [(IF exact > 0 THEN exact ELSE 0) + 1]
            /\ (values = [i \in 1..100 |-> i] /\ 50 \in DOMAIN got /\ 90 \in DOMAIN got)
                   => (got[50] = 50 /\ got[90] = 90)

----------------------------------------------------------------------------
(* parseTraceFile *)

MaxBytes == 4
MaxFileEvents == 2

\* Math.floor of a double below 2^31.
MathFloor(x) ==
    IF x.bits = <<>> \/ -x.exp >= Len(x.bits) THEN 0
    ELSE IF x.exp >= 0
         THEN BitsToNat(x.bits \o [i \in 1..x.exp |-> 0])
         ELSE BitsToNat(SubSeq(x.bits, 1, Len(x.bits) + x.exp))

\* Math.floor((bytesRead / totalBytes) * 100)
Percentage(bytesRead, totalBytes) ==
    MathFloor(DoubleTimes(DoubleDivide(bytesRead, totalBytes), 100))

\* Lines 70-76: the streams of readStream.pipe(jsonParser).pipe(arrayStream)
\* that an 'error' listener is attached to (`pipeline` is what the last pipe
\* returns, arrayStream), and the message each listener rejects with.
ErrorListeners == {"arrayStream", "readStream"}

RejectionMessage(stream, message) ==
    IF stream = "readStream"
    THEN "Failed to read trace file: " \o message
    ELSE "Failed to parse trace file: " \o message

\* resolve and reject settle a pending promise and leave a settled one alone.
Settle(promise, state, value) ==
    IF promise.state = "pending"
    THEN [state |-> state, value |-> Some(value)]
    ELSE promise

\* onProgress(progress), when a callback was given.
Report(run, onProgress, progress) ==
    IF onProgress THEN [run EXCEPT !.progress = Append(@, progress)] ELSE run

\* A trace file: its size, the elements of its top-level array and, for a
\* file that cannot be read or parsed, the stream that raises the error and
\* the error's message.
Faults ==
    { [stream |-> "readStream",
       message |-> "EIO: i/o error, read"],
      [stream |-> "jsonParser",
       message |-> "Parser cannot parse input: expected a value"],
      [stream |-> "arrayStream",
       message |-> "Top-level object should be an array."] }

TraceFiles ==
    [totalBytes : 1..MaxBytes,
     content    : SeqsUpTo(CompleteEvents, MaxFileEvents),
     fault      : {None} \cup { Some(f) : f \in Faults },
     onProgress : BOOLEAN]

\* Lines 27-36: the state when the Promise executor has run.
InitParse ==
    /\ ProcessorIdle
    /\ pc = "parseTraceFile"
    /\ arg \in TraceFiles
    /\ result = None
    /\ parse = [bytesRead              |-> 0,
                lastReportedPercentage |-> 0,
                events                 |-> <<>>,
                progress               |-> <<>>,
                flowing                |-> TRUE,
                uncaught               |-> None,
                promise                |-> [state |-> "pending", value |-> None]]
    /\ rangeFilterCache = EmptyCache
    /\ arrays = NoArrays

\* Lines 38-50: readStream 'data', for a chunk of any length that the file
\* still holds.
ReadStreamData ==
    /\ pc = "parseTraceFile"
    /\ parse.flowing
    /\ \E length \in 1..(arg.totalBytes - parse.bytesRead) :
           LET bytesRead == parse.bytesRead + length
               percentage == Percentage(bytesRead, arg.totalBytes)
               read == [parse EXCEPT !.bytesRead = bytesRead]
           IN  parse' =
                   IF arg.onProgress /\ percentage > parse.lastReportedPercentage
                   THEN Report([read EXCEPT !.lastReportedPercentage = percentage],
                               arg.onProgress,
                               [bytesRead   |-> bytesRead,
                                totalBytes  |-> arg.totalBytes,
                                eventsCount |-> Len(parse.events),
                                percentage  |-> percentage])
                   ELSE read
    /\ UNCHANGED <<arrays, rangeFilterCache, processorVars, pc, arg, result>>

\* Lines 54-56: pipeline 'data', for the next element of the array; a file
\* whose top-level value is no array has none.
PipelineData ==
    /\ pc = "parseTraceFile"
    /\ parse.flowing
    /\ parse.bytesRead > 0
    /\ Len(parse.events) < Len(arg.content)
    /\ arg.fault # None => arg.fault[1].stream # "arrayStream"
    /\ parse' = [parse EXCEPT
                    !.events = Append(@, arg.content[Len(parse.events) + 1])]
    /\ UNCHANGED <<arrays, rangeFilterCache, processorVars, pc, arg, result>>

\* Lines 58-68: pipeline 'end', when a well-formed file was read to its end
\* and all its elements were delivered.
PipelineEnd ==
    /\ pc = "parseTraceFile"
    /\ parse.flowing
    /\ arg.fault = None
    /\ parse.bytesRead = arg.totalBytes
    /\ Len(parse.events) = Len(arg.content)
    /\ parse' = [Report(parse, arg.onProgress,
                        [bytesRead   |-> arg.totalBytes,
                         totalBytes  |-> arg.totalBytes,
                         eventsCount |-> Len(parse.events),
                         percentage  |-> 100])
                    EXCEPT !.flowing = FALSE,
                           !.promise = Settle(@, "resolved", parse.events)]
    /\ pc' = "resolved"
    /\ UNCHANGED <<arrays, rangeFilterCache, processorVars, arg, result>>

\* Lines 70-76: 'error' on a stream of the chain. A stream with a listener
\* rejects the promise; an 'error' on a stream without one is thrown as an
\* uncaught exception and the promise stays as it is. A parser or array
\* streamer raises its error on bytes it was given.
StreamError ==
    /\ pc = "parseTraceFile"
    /\ parse.flowing
    /\ arg.fault # None
    /\ LET stream == arg.fault[1].stream
           message == arg.fault[1].message
       IN  /\ stream # "readStream" => parse.bytesRead > 0
           /\ parse' =
                  IF stream \in ErrorListeners
                  THEN [parse EXCEPT
                           !.flowing = FALSE,
                           !.promise = Settle(@, "rejected",
                                              RejectionMessage(stream, message))]
                  ELSE [parse EXCEPT
                           !.flowing = FALSE,
                           !.uncaught = Some(message)]
    /\ pc' = "failed"
    /\ UNCHANGED <<arrays, rangeFilterCache, processorVars, arg, result>>

NextParse == ReadStreamData \/ PipelineData \/ PipelineEnd \/ StreamError

SpecParse == InitParse /\ [][NextParse]_vars

(* Properties of parseTraceFile *)

\* The percentage values passed to the callback so far.
Percentages == [i \in DOMAIN parse.progress |-> parse.progress[i].percentage]

\* C17: during a successful run with a progress callback, over any chunking,
\* the percentages passed to the callback are strictly increasing, and 100
\* is reported exactly once, by the last callback at end-of-stream.
C17_ProgressStrictlyIncreasing ==
    (pc \in {"parseTraceFile", "resolved"} /\ arg.fault = None /\ arg.onProgress) =>
        /\ \A i \in 1..(Len(Percentages) - 1) : Percentages[i] < Percentages[i + 1]
        /\ pc = "resolved" =>
               /\ Cardinality({ i \in DOMAIN Percentages : Percentages[i] = 100 }) = 1
               /\ Percentages[Len(Percentages)] = 100

\* C18: when the bytes are not well-formed JSON or the top-level value is not
\* an array, whichever stream of the chain raises the error, the promise is
\* rejected with an error that carries the cause's message, and the promise
\* is never resolved with a partial event list.
C18_ErrorsReject ==
    /\ pc = "failed" =>
           /\ parse.promise.state = "rejected"
           /\ parse.promise.value[1]
                  \in { "Failed to parse trace file: " \o arg.fault[1].message,
                        "Failed to read trace file: " \o arg.fault[1].message }
    /\ parse.promise.state = "resolved" =>
           /\ arg.fault = None
           /\ parse.promise.value[1] = arg.content

----------------------------------------------------------------------------
(* filterByDuration *)

MaxFiltered == 3

\* Variant of filterByDuration: the floor itself is excluded.
filterByDurationExclusive(evs, minDurationMs) ==
    LET Keep(e) == e.duration > minDurationMs
    IN  SelectSeq(evs, Keep)

\* events.filter((e) => e.duration >= minDurationMs)
filterByDuration(evs, minDurationMs) ==
    LET Keep(e) == e.duration >= minDurationMs
    IN  SelectSeq(evs, Keep)

(* filterByDuration called on the output of processEvents *)

\* Durations below, at and above a floor of 0.5 ms, and start times.
FilterShapes == [duration : {400, 500, 600}, startTime : {0, 500}]

\* Processed lists, sorted by startTime as processEvents returns them.
FilterEvents ==
    { [i \in DOMAIN shapes |->
          [id        |-> EventId(i - 1),
           name      |-> "span",
           category  |-> "check",
           startTime |-> shapes[i].startTime,
           duration  |-> shapes[i].duration,
           filePath  |-> None,
           args      |-> None]] :
        shapes \in { s \in SeqsUpTo(FilterShapes, MaxFiltered) :
                       \A i \in 1..(Len(s) - 1) :
                           s[i].startTime <= s[i + 1].startTime } }

InitFilter ==
    /\ ProcessorIdle
    /\ parse = None
    /\ rangeFilterCache = EmptyCache
    /\ arrays = NoArrays
    /\ pc = "filterByDuration"
    /\ arg \in [events : FilterEvents, minDurationMs : {0, 500, 600}]
    /\ result = None

FilterByDuration ==
    /\ pc = "filterByDuration"
    /\ result' = Some(filterByDuration(arg.events, arg.minDurationMs))
    /\ pc' = "filtered"
    /\ UNCHANGED <<arrays, rangeFilterCache, processorVars, parse, arg>>

NextFilter == FilterByDuration

SpecFilter == InitFilter /\ [][NextFilter]_vars

(* Properties of filterByDuration *)

\* C19: filterByDuration(events, m) returns exactly the events whose
\* duration is at least m (one equal to m is kept, every one below m is
\* dropped) in their original relative order, so a list sorted by startTime
\* stays sorted.
C19_InclusiveFloorInOrder ==
    pc = "filtered" =>
        LET evs == arg.events
            kept == result[1]
            At(e) == CHOOSE k \in DOMAIN evs : evs[k] = e
        IN  /\ \A i \in DOMAIN kept :
                   /\ \E k \in DOMAIN evs : evs[k] = kept[i]
                   /\ kept[i].duration >= arg.minDurationMs
            /\ \A k \in DOMAIN evs :
                   evs[k].duration >= arg.minDurationMs
                       => Cardinality({ i \in DOMAIN kept : kept[i] = evs[k] }) = 1
            /\ \A i, j \in DOMAIN kept : i < j => At(kept[i]) < At(kept[j])
            /\ \A i \in 1..(Len(kept) - 1) :
                   kept[i].startTime <= kept[i + 1].startTime

\* An event at the floor was kept, the event below the floor before it was
\* dropped, and the events kept are in their order.
C19_Witness ==
    /\ pc = "filtered"
    /\ arg.minDurationMs = 500
    /\ Len(arg.events) = 3
    /\ arg.events[1].duration = 400
    /\ arg.events[2].duration = 500
    /\ arg.events[3].duration = 600
    /\ result[1] = <<arg.events[2], arg.events[3]>>

----------------------------------------------------------------------------
(* tpa summary --top <n>: calculateHotspots and the list of slowest files *)

MaxFiles == 22
MaxTopOption == 22

SlowestFilesLimit == 20
PhaseHotspotsLimit == 10

\* array.slice(start, end) for 0 <= start and end.
Slice(s, start, end) ==
    SubSeq(s, start + 1, IF end < Len(s) THEN end ELSE Len(s))

\* parseInt(text, 10) of a decimal numeral; None stands for NaN.
ParseInt(text) ==
    IF \E n \in 0..(MaxTopOption + 1) : ToString(n) = text
    THEN Some(CHOOSE n \in 0..(MaxTopOption + 1) : ToString(n) = text)
    ELSE None

\* A HotspotItem of a file for one of its times.
HotspotOf(f, property) ==
    [filePath |-> f.filePath, shortPath |-> f.shortPath,
     duration |-> f[property]]

\* getTopN(files, 10, (f) => f[property]).filter((f) => f[property] > 0).map(...)
PhaseHotspots(files, property) ==
    LET top == getTopN(files, PhaseHotspotsLimit, property).value
        Positive(f) == f[property] > 0
        kept == SelectSeq(top, Positive)
    IN  [i \in DOMAIN kept |-> HotspotOf(kept[i], property)]

calculateHotspots(files) ==
    LET slowest == Slice(files, 0, SlowestFilesLimit)
    IN  [slowestFiles      |-> [i \in DOMAIN slowest |->
                                   HotspotOf(slowest[i], "totalTime")],
         slowestParseFiles |-> PhaseHotspots(files, "parseTime"),
         slowestCheckFiles |-> PhaseHotspots(files, "checkTime")]

(* The hotspot list of summaryCommand *)

\* The i-th of count aggregated files, in the order of aggregateByFile:
\* total time descending.
AggregatedFile(i, count) ==
    LET path == "/src/f" \o ToString(i) \o ".ts"
        totalTime == (count - i + 1) * 1000
        parseTime == IF i % 2 = 0 THEN 0 ELSE 400
    IN  [filePath  |-> path,
         shortPath |-> path,
         totalTime |-> totalTime,
         parseTime |-> parseTime,
         checkTime |-> totalTime - parseTime]

SummaryInputs ==
    [files : { [i \in 1..count |-> AggregatedFile(i, count)] :
                 count \in 0..MaxFiles },
     top   : { ToString(n) : n \in 1..MaxTopOption }]

InitSummary ==
    /\ ProcessorIdle
    /\ parse = None
    /\ rangeFilterCache = EmptyCache
    /\ arrays = NoArrays
    /\ pc = "summary"
    /\ arg \in SummaryInputs
    /\ result = None

\* summary.ts lines 24 and 85-86: the files listed under "Top n Slowest
\* Files" (a top that is no number lists nothing).
SummaryHotspots ==
    /\ pc = "summary"
    /\ LET topN == ParseInt(arg.top)
           hotspots == calculateHotspots(arg.files)
       IN  result' = Some(IF topN = None THEN <<>>
                          ELSE Slice(hotspots.slowestFiles, 0, topN[1]))
    /\ pc' = "summarised"
    /\ UNCHANGED <<arrays, rangeFilterCache, processorVars, parse, arg>>

NextSummary == SummaryHotspots

SpecSummary == InitSummary /\ [][NextSummary]_vars

(* Properties of the summary command *)

\* C20: with --top n the summary lists the n slowest files by total time,
\* or all aggregated files when there are fewer than n, for every positive
\* n.
C20_TopListsNSlowest ==
    pc = "summarised" =>
        \A n \in 1..MaxTopOption :
            arg.top = ToString(n) =>
                LET listed == result[1]
                    files == arg.files
                IN  /\ Len(listed) = (IF n < Len(files) THEN n ELSE Len(files))
                    /\ \A i \in DOMAIN listed :
                           /\ listed[i].filePath = files[i].filePath
                           /\ listed[i].duration = files[i].totalTime

----------------------------------------------------------------------------
(* extractFilePath called on one raw event *)

PathKeys == <<"path", "fileName", "containingFileName", "configFilePath">>

\* Argument bags in which each of the four keys is absent, holds the empty
\* string or holds a path of its own.
PathBags ==
    { [k \in keys |-> IF k \in empty THEN "" ELSE "/src/" \o k \o ".ts"] :
        keys \in SUBSET { PathKeys[i] : i \in DOMAIN PathKeys },
        empty \in SUBSET { PathKeys[i] : i \in DOMAIN PathKeys } }

PathEvents ==
    { RawEvent("X", 1, 1, "findSourceFile", "program", 1000, None, a) :
        a \in {None} \cup { Some(bag) : bag \in PathBags } }

InitPath ==
    /\ ProcessorIdle
    /\ parse = None
    /\ rangeFilterCache = EmptyCache
    /\ arrays = NoArrays
    /\ pc = "extractFilePath"
    /\ arg \in PathEvents
    /\ result = None

\* result holds the optional string returned.
ExtractFilePath ==
    /\ pc = "extractFilePath"
    /\ result' = extractFilePath(arg)
    /\ pc' = "resolved path"
    /\ UNCHANGED <<arrays, rangeFilterCache, processorVars, parse, arg>>

NextPath == ExtractFilePath

SpecPath == InitPath /\ [][NextPath]_vars

(* Properties of extractFilePath *)

\* The keys of PathKeys, in order, that the event's argument bag satisfies
\* Has for.
KeysWhere(event, Has(_, _)) ==
    IF event.args = None THEN <<>>
    ELSE LET Holds(k) == Has(event.args[1], k)
         IN  SelectSeq(PathKeys, Holds)

KeyPresent(bag, k) == k \in DOMAIN bag

KeyNonEmpty(bag, k) == k \in DOMAIN bag /\ bag[k] # ""

\* C21 as stated: the keys path, fileName, containingFileName and
\* configFilePath are tried in that order and the value of the first key
\* that is present is returned; with none of them present, or no argument
\* bag, the resolved path is undefined.
C21_FirstPresentKey ==
    pc = "resolved path" =>
        LET present == KeysWhere(arg, KeyPresent)
        IN  result = IF present = <<>> THEN None
                     ELSE Some(arg.args[1][present[1]])

\* C21 as amended: the value of the first key, in that order, that holds a
\* non-empty string is returned; when none of the four does, or there is no
\* argument bag, the resolved path is undefined or the empty string.
C21_FirstNonEmptyKey ==
    pc = "resolved path" =>
        LET filled == KeysWhere(arg, KeyNonEmpty)
        IN  IF filled = <<>>
            THEN result \in {None, Some("")}
            ELSE result = Some(arg.args[1][filled[1]])

\* A bag with path and fileName both filled resolved to the path, and not
\* to the fileName.
C21_Witness ==
    /\ pc = "resolved path"
    /\ arg.args # None
    /\ KeysWhere(arg, KeyNonEmpty) = PathKeys
    /\ result = Some("/src/path.ts")

(***************************************************************************)
(* shortenPath (src/parser/file-aggregator.ts, lines 89-103).  Paths are   *)
(* strings; Len and SubSeq give their length and their substrings.         *)
(***************************************************************************)

MaxSegments == 5

\* String.prototype.lastIndexOf: the 0-based index of the last occurrence
\* of needle in s, or -1.
lastIndexOf(s, needle) ==
    LET n == Len(needle)
        at == { i \in 1..(Len(s) - n + 1) : SubSeq(s, i, i + n - 1) = needle }
    IN  IF at = {} THEN -1
        ELSE (CHOOSE i \in at : \A j \in at : j <= i) - 1

\* String.prototype.slice(start) with 0 <= start: the suffix from the
\* 0-based index start.
sliceFrom(s, start) == SubSeq(s, start + 1, Len(s))

\* String.prototype.split(separator) for a one-character separator: the
\* pieces between the separators, empty pieces included.
split(s, separator) ==
    LET at  == { i \in 1..Len(s) : SubSeq(s, i, i) = separator }
        cut == [k \in 0..(Cardinality(at) + 1) |->
                   IF k = 0 THEN 0
                   ELSE IF k = Cardinality(at) + 1 THEN Len(s) + 1
                   ELSE CHOOSE i \in at :
                            Cardinality({ j \in at : j < i }) = k - 1]
    IN  [k \in 1..(Cardinality(at) + 1) |->
            SubSeq(s, cut[k - 1] + 1, cut[k] - 1)]

\* Array.prototype.join(separator).
RECURSIVE join(_, _)
join(parts, separator) ==
    IF parts = <<>> THEN ""
    ELSE IF Len(parts) = 1 THEN parts[1]
    ELSE parts[1] \o separator \o join(Tail(parts), separator)

\* Array.prototype.slice(-n): the last n elements, or all of them.
LastN(parts, n) ==
    SubSeq(parts, IF Len(parts) > n THEN Len(parts) - n + 1 ELSE 1, Len(parts))

\* Lines 89-103.
shortenPath(filePath) ==
    LET nodeModulesIndex == lastIndexOf(filePath, "node_modules")
        parts == split(filePath, "/")
    IN  IF nodeModulesIndex # -1 THEN sliceFrom(filePath, nodeModulesIndex)
        ELSE IF Len(parts) > 4 THEN ".../" \o join(LastN(parts, 3), "/")
        ELSE filePath

(* A direct call of shortenPath *)

SegmentNames == {"src", "node_modules", "node_modules_old"}

\* Relative and absolute paths of 1..MaxSegments named segments.
SamplePaths ==
    { prefix \o join(segs, "/") :
        prefix \in {"", "/"},
        segs \in SeqsUpTo(SegmentNames, MaxSegments) \ {<<>>} }

InitShorten ==
    /\ ProcessorIdle
    /\ parse = None
    /\ rangeFilterCache = EmptyCache
    /\ arrays = NoArrays
    /\ pc = "shortenPath"
    /\ arg \in SamplePaths
    /\ result = None

\* result holds the string returned.
ShortenPath ==
    /\ pc = "shortenPath"
    /\ result' = Some(shortenPath(arg))
    /\ pc' = "shortened"
    /\ UNCHANGED <<arrays, rangeFilterCache, processorVars, parse, arg>>

NextShorten == ShortenPath

SpecShorten == InitShorten /\ [][NextShorten]_vars

(* Properties of shortenPath *)

\* The 1-based indices of the '/'-delimited segments of p that are exactly
\* node_modules.
NodeModulesSegments(p) ==
    { k \in 1..Len(split(p, "/")) : split(p, "/")[k] = "node_modules" }

\* p from its k-th '/'-delimited segment onward.
FromSegment(p, k) ==
    join(SubSeq(split(p, "/"), k, Len(split(p, "/"))), "/")

\* C22: when p has a node_modules path segment the result is p from such a
\* segment onward; otherwise, when p has more than 4 '/'-delimited segments
\* the result is ".../" followed by the last 3 segments; otherwise the
\* result is p unchanged.
C22_ShortenedBySegments ==
    pc = "shortened" =>
        LET parts == split(arg, "/")
        IN  IF NodeModulesSegments(arg) # {}
            THEN \E k \in NodeModulesSegments(arg) :
                     result = Some(FromSegment(arg, k))
            ELSE IF Len(parts) > 4
            THEN result = Some(".../" \o join(LastN(parts, 3), "/"))
            ELSE result = Some(arg)

(***************************************************************************)
(* buildTimeline called on a list of processed events                      *)
(* (src/parser/trace-parser.ts, lines 127-157).                            *)
(***************************************************************************)

InitTimeline ==
    /\ ProcessorIdle
    /\ parse = None
    /\ rangeFilterCache = EmptyCache
    /\ arrays = NoArrays
    /\ pc = "buildTimeline"
    /\ arg \in ProcessedInputs
    /\ result = None

\* result holds the TimelineData returned.
BuildTimelineOf ==
    /\ pc = "buildTimeline"
    /\ result' = Some(buildTimeline(arg))
    /\ pc' = "built timeline"
    /\ UNCHANGED <<arrays, rangeFilterCache, processorVars, parse, arg>>

NextTimeline == BuildTimelineOf

SpecTimeline == InitTimeline /\ [][NextTimeline]_vars

(* Properties of buildTimeline *)

\* The categories counted for each phase.
PhaseCategories ==
    [parse |-> {"parse"}, bind |-> {"bind"},
     check |-> {"check", "checkTypes"}, emit |-> {"emit"}]

\* Positions of the input events of the phase.
PhaseInput(phase) ==
    { k \in 1..Len(arg) : arg[k].category \in PhaseCategories[phase] }

\* C23: for each of the four phases buildTimeline reports count = the
\* number of events of the phase (check and checkTypes both count for
\* check), totalTime = the sum of their durations, maxTime and minTime =
\* the largest and the smallest of their durations, avgTime =
\* totalTime/count; for a phase without events, and for an empty list, the
\* five are 0.
C23_PhaseStatistics ==
    pc = "built timeline" =>
        \A phase \in Phases :
            LET at == PhaseInput(phase)
                timing == result[1].phases[phase]
            IN  /\ timing.count = Cardinality(at)
                /\ timing.totalTime = SumOver(at, PhaseCategories[phase])
                /\ IF at = {}
                   THEN /\ timing.avgTime = [num |-> 0, den |-> 1]
                        /\ timing.maxTime = 0
                        /\ timing.minTime = 0
                   ELSE /\ timing.avgTime =
                               [num |-> SumOver(at, PhaseCategories[phase]),
                                den |-> Cardinality(at)]
                        /\ \E k \in at : timing.maxTime = arg[k].duration
                        /\ \E k \in at : timing.minTime = arg[k].duration
                        /\ \A k \in at : /\ arg[k].duration <= timing.maxTime
                                         /\ arg[k].duration >= timing.minTime

\* A list with a check event of duration 2, a checkTypes event of duration
\* 1 and a program event: check has count 2, total 3, maximum 2 and minimum
\* 1, and the three other phases are all zero.
C23_Witness ==
    /\ pc = "built timeline"
    /\ Len(arg) = 3
    /\ arg[1].category = "check" /\ arg[1].duration = 2
    /\ arg[2].category = "checkTypes" /\ arg[2].duration = 1
    /\ arg[3].category = "program"
    /\ result[1].phases.check =
           [totalTime |-> 3, count |-> 2, avgTime |-> [num |-> 3, den |-> 2],
            maxTime |-> 2, minTime |-> 1]
    /\ \A phase \in {"parse", "bind", "emit"} :
           result[1].phases[phase] = EmptyPhase

----------------------------------------------------------------------------
(* extractLocationsFromFile and the category of the events *)

CheckPhase(e) == e.category \in {"check", "checkTypes"}

\* The summed duration of the check-phase events of evs at the range r.
CheckDurationAt(evs, r) ==
    LET AtRange(e) == HasRange(e) /\ RangeOf(e) = r /\ CheckPhase(e)
    IN  DurationAt(SelectSeq(evs, AtRange), r)

\* C24: the duration of a CodeLocation is the sum over the check-phase
\* events (category check or checkTypes) of its (pos, end) only; an event
\* of another category with the same pos and end adds nothing to it and
\* creates no location.
C24_CheckPhaseOnly ==
    Extracted =>
        LET aggregated == MapValues(LocationLoop(arg, <<>>))
        IN  \A i \in DOMAIN aggregated :
                LET r == <<aggregated[i].pos, aggregated[i].end>>
                IN  /\ \E k \in DOMAIN arg :
                           HasRange(arg[k]) /\ RangeOf(arg[k]) = r
                               /\ CheckPhase(arg[k])
                    /\ aggregated[i].duration = CheckDurationAt(arg, r)

----------------------------------------------------------------------------
(* processEvents and the Complete events *)

\* pe is what the Complete event x is to become.
IsCompleteOf(pe, x) ==
    /\ pe.name = x.name
    /\ pe.category = x.cat
    /\ pe.startTime = x.ts - MinRetainedTs
    /\ pe.duration = (IF x.dur = None THEN 0 ELSE x.dur[1])
    /\ pe.args = x.args

\* C25: every Complete event of the input gives exactly one processed
\* event, with startTime (ts - minTimestamp)/1000 and duration dur/1000, or
\* 0 without a dur field, where minTimestamp is the smallest ts of the
\* events that are not metadata.
C25_CompleteEventsOnce ==
    Returned =>
        \A k \in 1..Len(rawEvents) :
            rawEvents[k].ph = "X" =>
                Cardinality({ p \in 1..Len(processedEvents) :
                                IsCompleteOf(processedEvents[p], rawEvents[k]) })
                    = Cardinality({ n \in 1..Len(rawEvents) :
                                      rawEvents[n] = rawEvents[k] })

\* A metadata event at time 0 came before a Complete event without dur at
\* 1000 us and one with dur 500 us at 1500 us: the two were emitted at 0 ms
\* with duration 0 and at 0.5 ms with duration 0.5 ms.
C25_Witness ==
    /\ Returned
    /\ Len(rawEvents) = 3
    /\ rawEvents[1].ph = "M" /\ rawEvents[1].ts = 0
    /\ rawEvents[2].ph = "X" /\ rawEvents[2].dur = Some(500)
    /\ rawEvents[3].ph = "X" /\ rawEvents[3].dur = None
    /\ Len(processedEvents) = 2
    /\ processedEvents[1].startTime = 0 /\ processedEvents[1].duration = 0
    /\ processedEvents[2].startTime = 500 /\ processedEvents[2].duration = 500

----------------------------------------------------------------------------
(* processEvents on spans whose Begin and End both carry arguments *)

MaxPairEvents == 3

\* Argument bags of the Begin events: none, a path with a position, an
\* empty path, an empty configFilePath, a fileName.  The positions are
\* written as text, like every other value of a bag.
BeginBags ==
    { None,
      Some([path |-> "/src/a.ts", pos |-> "1"]),
      Some([path |-> ""]),
      Some([configFilePath |-> ""]),
      Some([fileName |-> "/src/f.ts"]) }

\* Argument bags of the End events: none, another path with an end
\* position, another position, an empty path.
EndBags ==
    { None,
      Some([path |-> "/src/b.ts", end |-> "9"]),
      Some([pos |-> "2"]),
      Some([path |-> ""]) }

\* Begin and End events of one key, a Complete and an Instant event.
PairUniverse ==
    { RawEvent("B", 1, 1, "checkSourceFile", "check", 1000, None, a) :
        a \in BeginBags }
    \cup { RawEvent("E", 1, 1, "checkSourceFile", "check", 1500, None, a) :
             a \in EndBags }
    \cup { RawEvent("X", 1, 1, "createSourceFile", "parse", 1500, Some(500),
                    Some([path |-> "/src/a.ts"])),
           RawEvent("I", 1, 1, "mark", "program", 1000, None, None) }

InitPair ==
    /\ rawEvents \in SeqsUpTo(PairUniverse, MaxPairEvents)
    /\ pc = "call"
    /\ events = <<>>
    /\ idx = 1
    /\ minTimestamp = 0
    /\ processedEvents = <<>>
    /\ eventStacks = [k \in {} |-> <<>>]
    /\ idCounter = 0
    /\ timeline = None
    /\ arg = None
    /\ result = None
    /\ parse = None
    /\ rangeFilterCache = EmptyCache
    /\ arrays = NoArrays

SpecPair == InitPair /\ [][Next]_vars

(* Properties of the emitted pair *)

\* The step closes the Begin at position i with the End at idx and emits pe.
EmitsPair(i, pe) ==
    /\ InLoop
    /\ events[idx].ph = "E"
    /\ HasBeginFor(idx)
    /\ i = BeginFor(idx)
    /\ \E p \in 1..Len(processedEvents') :
           /\ processedEvents'[p] = pe
           /\ pe.id = EventId(idCounter)
           /\ Without(processedEvents', p) = processedEvents

Keys(args) == IF args = None THEN {} ELSE DOMAIN args[1]

\* C26: the argument bag of the event emitted for a Begin/End pair is the
\* union of the two bags: a key of one side only keeps that side's value,
\* a key of both sides has the End's value.
C26_ArgsUnionEndWins ==
    [][(InLoop /\ events[idx].ph = "E" /\ HasBeginFor(idx)) =>
          \E pe \in { processedEvents'[p] : p \in 1..Len(processedEvents') } :
              LET begin == events[BeginFor(idx)]
                  end == events[idx]
              IN  /\ EmitsPair(BeginFor(idx), pe)
                  /\ pe.args # None
                  /\ DOMAIN pe.args[1] = Keys(begin.args) \cup Keys(end.args)
                  /\ \A k \in Keys(end.args) : pe.args[1][k] = end.args[1][k]
                  /\ \A k \in Keys(begin.args) \ Keys(end.args) :
                         pe.args[1][k] = begin.args[1][k]]_vars

\* A Begin with path and pos was closed by an End with another path and
\* end: the emitted bag has the End's path, the Begin's pos and the End's
\* end.
C26_Witness ==
    /\ Returned
    /\ Len(rawEvents) = 2
    /\ rawEvents[1].args = Some([path |-> "/src/a.ts", pos |-> "1"])
    /\ rawEvents[2].args = Some([path |-> "/src/b.ts", end |-> "9"])
    /\ Len(processedEvents) = 1
    /\ processedEvents[1].args =
           Some([path |-> "/src/b.ts", pos |-> "1", end |-> "9"])

\* The value of the first of the four path keys that holds a non-empty
\* string in the argument bag of the raw event.
FirstNonEmptyPath(event) ==
    LET filled == KeysWhere(event, KeyNonEmpty)
    IN  IF filled = <<>> THEN None ELSE Some(event.args[1][filled[1]])

HasPathKey(event) == "path" \in Keys(event.args)

\* C30 as stated: the filePath of the event emitted for a pair is the path
\* resolved from the Begin's bag when that resolution yields a value, and
\* otherwise the path resolved from the End's bag; when both sides carry a
\* path key with different values, filePath is the Begin's and the merged
\* args carry the End's.
C30_BeginPathWhenResolved ==
    [][(InLoop /\ events[idx].ph = "E" /\ HasBeginFor(idx)) =>
          \E pe \in { processedEvents'[p] : p \in 1..Len(processedEvents') } :
              LET begin == events[BeginFor(idx)]
                  end == events[idx]
              IN  /\ EmitsPair(BeginFor(idx), pe)
                  /\ pe.filePath = IF extractFilePath(begin) # None
                                   THEN extractFilePath(begin)
                                   ELSE extractFilePath(end)
                  /\ (HasPathKey(begin) /\ HasPathKey(end)
                        /\ begin.args[1].path # end.args[1].path)
                       => /\ pe.filePath = Some(begin.args[1].path)
                          /\ pe.args[1].path = end.args[1].path]_vars

\* C30 as amended: the filePath is the Begin's first non-empty path value
\* when it has one, otherwise the End's first non-empty path value, and it
\* is undefined or empty only when neither side has one; when both sides
\* carry a path key with different non-empty values, filePath is the
\* Begin's and the merged args carry the End's.
C30_BeginPathWhenNonEmpty ==
    [][(InLoop /\ events[idx].ph = "E" /\ HasBeginFor(idx)) =>
          \E pe \in { processedEvents'[p] : p \in 1..Len(processedEvents') } :
              LET begin == events[BeginFor(idx)]
                  end == events[idx]
              IN  /\ EmitsPair(BeginFor(idx), pe)
                  /\ IF FirstNonEmptyPath(begin) # None
                     THEN pe.filePath = FirstNonEmptyPath(begin)
                     ELSE IF FirstNonEmptyPath(end) # None
                     THEN pe.filePath = FirstNonEmptyPath(end)
                     ELSE pe.filePath \in {None, Some("")}
                  /\ (HasPathKey(begin) /\ HasPathKey(end)
                        /\ begin.args[1].path # end.args[1].path
                        /\ begin.args[1].path # "" /\ end.args[1].path # "")
                       => /\ pe.filePath = Some(begin.args[1].path)
                          /\ pe.args[1].path = end.args[1].path]_vars

\* A Begin with the path /src/a.ts was closed by an End with the path
\* /src/b.ts: the emitted filePath is the Begin's and args.path the End's.
C30_Witness ==
    /\ Returned
    /\ Len(rawEvents) = 2
    /\ rawEvents[1].ph = "B" /\ FirstNonEmptyPath(rawEvents[1]) = Some("/src/a.ts")
    /\ rawEvents[2].ph = "E" /\ FirstNonEmptyPath(rawEvents[2]) = Some("/src/b.ts")
    /\ Len(processedEvents) = 1
    /\ processedEvents[1].filePath = Some("/src/a.ts")
    /\ processedEvents[1].args[1].path = "/src/b.ts"

----------------------------------------------------------------------------
(* processEvents on spans of one key at four timestamps *)

MaxSpanEvents == 4

\* Begin and End events of one key at four timestamps, a Complete and an
\* Instant event.
SpanUniverse ==
    { RawEvent(ph, 1, 1, "checkSourceFile", "check", ts, None, None) :
        ph \in {"B", "E"}, ts \in {1000, 1500, 2000, 2500} }
    \cup { RawEvent("X", 1, 1, "createSourceFile", "parse", 1500, Some(500),
                    None),
           RawEvent("I", 1, 1, "mark", "program", 1000, None, None) }

InitSpans ==
    /\ rawEvents \in SeqsUpTo(SpanUniverse, MaxSpanEvents)
    /\ pc = "call"
    /\ events = <<>>
    /\ idx = 1
    /\ minTimestamp = 0
    /\ processedEvents = <<>>
    /\ eventStacks = [k \in {} |-> <<>>]
    /\ idCounter = 0
    /\ timeline = None
    /\ arg = None
    /\ result = None
    /\ parse = None
    /\ rangeFilterCache = EmptyCache
    /\ arrays = NoArrays

SpecSpans == InitSpans /\ [][Next]_vars

(* Properties of the emitted spans *)

\* Positions of the processed events emitted for Begin/End pairs of the
\* key of the sample spans.
EmittedSpans ==
    { p \in 1..Len(processedEvents) :
        processedEvents[p].name = "checkSourceFile" }

SpanBegin(p) == processedEvents[p].startTime

SpanEnd(p) == processedEvents[p].startTime + processedEvents[p].duration

\* C29: the intervals [begin.ts, end.ts] of the pairs emitted for one key
\* never partially overlap: any two of them are disjoint, at most sharing
\* an endpoint, or one contains the other.
C29_SpansNestOrDisjoint ==
    Returned =>
        \A p, q \in EmittedSpans :
            p # q =>
                \/ SpanEnd(p) <= SpanBegin(q)
                \/ SpanEnd(q) <= SpanBegin(p)
                \/ SpanBegin(p) <= SpanBegin(q) /\ SpanEnd(q) <= SpanEnd(p)
                \/ SpanBegin(q) <= SpanBegin(p) /\ SpanEnd(p) <= SpanEnd(q)

\* Begins at 1000 and 1500 us and Ends at 2000 and 2500 us: the pair begun
\* at 1500 ended at 2000, strictly inside the pair from 1000 to 2500.
C29_Witness ==
    /\ Returned
    /\ Len(rawEvents) = 4
    /\ \A k \in 1..4 : rawEvents[k].ts = 500 + 500 * k
    /\ rawEvents[1].ph = "B" /\ rawEvents[2].ph = "B"
    /\ rawEvents[3].ph = "E" /\ rawEvents[4].ph = "E"
    /\ Len(processedEvents) = 2
    /\ SpanBegin(1) = 0 /\ SpanEnd(1) = 1500
    /\ SpanBegin(2) = 500 /\ SpanEnd(2) = 1000

(***************************************************************************)
(* filterTimelineByRange and clearRangeFilterCache                         *)
(* (src/parser/trace-parser.ts, lines 256-299).  A TimelineData object is  *)
(* known by its place in timeline; a result object by the number of the    *)
(* call that built it.                                                     *)
(***************************************************************************)

MaxCalls == 3

\* `${x}` of the number x/1000 given in fixed point: the shortest decimal
\* numeral, without a fraction for a whole number.
NumberToString(v) ==
    LET a     == IF v < 0 THEN -v ELSE v
        frac  == a % UsPerMs
        d1    == frac \div 100
        d2    == (frac \div 10) % 10
        d3    == frac % 10
        tail2 == IF d3 = 0 THEN "" ELSE ToString(d3)
        tail1 == IF d2 = 0 /\ d3 = 0 THEN "" ELSE ToString(d2) \o tail2
    IN  (IF v < 0 THEN "-" ELSE "") \o ToString(a \div UsPerMs)
            \o (IF frac = 0 THEN "" ELSE "." \o ToString(d1) \o tail1)

\* Variant of cacheKey: the start of the range is left out of the key.
cacheKeyEndOnly(startMs, endMs) == NumberToString(endMs)

\* `${startMs}-${endMs}`
cacheKey(startMs, endMs) ==
    NumberToString(startMs) \o "-" \o NumberToString(endMs)

\* timeline.events.filter(...), lines 276-278.
filteredEvents(tl, startMs, endMs) ==
    LET InRange(e) == e.startTime >= startMs /\ e.startTime + e.duration <= endMs
    IN  SelectSeq(tl.events, InRange)

(* Calls of the two functions on two timelines *)

RangeEvent(i, startTime, duration, category) ==
    [id        |-> EventId(i - 1),
     name      |-> "span",
     category  |-> category,
     startTime |-> startTime,
     duration  |-> duration,
     filePath  |-> Some("/src/a.ts"),
     args      |-> None]

\* Two processed lists, 0 to 1.5 ms.
SampleEventLists ==
    { << RangeEvent(1, 0, 500, "parse"), RangeEvent(2, 500, 500, "check"),
         RangeEvent(3, 1000, 500, "emit") >>,
      << RangeEvent(1, 0, 1500, "check"), RangeEvent(2, 500, 1000, "check") >> }

\* Ranges (startMs, endMs) in fixed point: the whole, the second part, the
\* first part, and the first part from a negative start.
SampleRanges == { <<0, 1500>>, <<500, 1500>>, <<0, 500>>, <<-500, 500>> }

\* Two TimelineData objects, of equal or of different contents.  arg is the
\* list of the calls made and result the list of what they returned.
InitRange ==
    /\ rawEvents = <<>>
    /\ events = <<>>
    /\ idx = 1
    /\ minTimestamp = 0
    /\ processedEvents = <<>>
    /\ eventStacks = [k \in {} |-> <<>>]
    /\ idCounter = 0
    /\ timeline \in { <<buildTimeline(a), buildTimeline(b)>> :
                        a \in SampleEventLists, b \in SampleEventLists }
    /\ pc = "timeline-builder"
    /\ arg = <<>>
    /\ result = <<>>
    /\ parse = None
    /\ rangeFilterCache = EmptyCache
    /\ arrays = NoArrays

Call(op, t, startMs, endMs) ==
    [op |-> op, timeline |-> t, startMs |-> startMs, endMs |-> endMs]

\* Lines 262-290.
FilterTimelineByRange(t, startMs, endMs) ==
    /\ Len(arg) < MaxCalls
    /\ LET key == cacheKey(startMs, endMs)
           timelineCache == IF t \in DOMAIN rangeFilterCache
                            THEN rangeFilterCache[t] ELSE <<>>
           built == [ref   |-> Len(arg) + 1,
                     value |-> buildTimeline(
                                   filteredEvents(timeline[t], startMs, endMs))]
       IN  IF t \in DOMAIN rangeFilterCache /\ key \in DOMAIN rangeFilterCache[t]
           THEN /\ result' = Append(result, Some(rangeFilterCache[t][key]))
                /\ UNCHANGED rangeFilterCache
           ELSE /\ rangeFilterCache' =
                       [u \in DOMAIN rangeFilterCache \cup {t} |->
                           IF u = t
                           THEN [k \in DOMAIN timelineCache \cup {key} |->
                                    IF k = key THEN built ELSE timelineCache[k]]
                           ELSE rangeFilterCache[u]]
                /\ result' = Append(result, Some(built))
    /\ arg' = Append(arg, Call("filterTimelineByRange", t, startMs, endMs))
    /\ UNCHANGED <<arrays, processorVars, pc, parse>>

\* Lines 295-299; t = 0 stands for a call without a timeline.
ClearRangeFilterCache(t) ==
    /\ Len(arg) < MaxCalls
    /\ rangeFilterCache' =
           IF t # 0
           THEN [u \in DOMAIN rangeFilterCache \ {t} |-> rangeFilterCache[u]]
           ELSE rangeFilterCache
    /\ arg' = Append(arg, Call("clearRangeFilterCache", t, 0, 0))
    /\ result' = Append(result, None)
    /\ UNCHANGED <<arrays, processorVars, pc, parse>>

NextRange ==
    \/ \E t \in 1..Len(timeline), r \in SampleRanges :
           FilterTimelineByRange(t, r[1], r[2])
    \/ \E t \in 0..Len(timeline) : ClearRangeFilterCache(t)

SpecRange == InitRange /\ [][NextRange]_vars

(* Properties of filterTimelineByRange *)

IsFilterCall(n) == arg[n].op = "filterTimelineByRange"

\* Call n is the call m made again.
SameQuery(m, n) ==
    /\ IsFilterCall(m) /\ IsFilterCall(n)
    /\ arg[m].timeline = arg[n].timeline
    /\ arg[m].startMs = arg[n].startMs
    /\ arg[m].endMs = arg[n].endMs

\* The cache of the timeline of call n was cleared between the calls m and n.
ClearedBetween(m, n) ==
    \E c \in (m + 1)..(n - 1) :
        /\ arg[c].op = "clearRangeFilterCache"
        /\ arg[c].timeline = arg[n].timeline

\* The events of the timeline of call n that lie within the range of call n.
EventsInRange(n) ==
    LET all == timeline[arg[n].timeline].events
        at  == { i \in 1..Len(all) :
                   /\ all[i].startTime >= arg[n].startMs
                   /\ all[i].startTime + all[i].duration <= arg[n].endMs }
    IN  [k \in 1..Cardinality(at) |->
            all[CHOOSE i \in at : Cardinality({ j \in at : j < i }) = k - 1]]

\* C27: whatever filterTimelineByRange and clearRangeFilterCache calls were
\* made, every filterTimelineByRange(t, s, e) returned buildTimeline of
\* exactly the events of t with startTime >= s and startTime + duration <=
\* e; the object returned was built by a call for the same timeline and
\* range; and a query repeated without a clear of its timeline in between
\* returned the object of the earlier call.
C27_RangeFilterCached ==
    \A n \in 1..Len(arg) :
        IsFilterCall(n) =>
            LET returned == result[n][1]
            IN  /\ returned.value = buildTimeline(EventsInRange(n))
                /\ returned.ref \in 1..n
                /\ SameQuery(returned.ref, n)
                /\ \A m \in 1..(n - 1) :
                       (SameQuery(m, n) /\ ~ClearedBetween(m, n))
                           => returned.ref = result[m][1].ref

\* The same range was asked of the first timeline, of the second, whose
\* events differ, and of the first again: the third call returned the
\* object of the first call, the second call another one.
C27_Witness ==
    /\ Len(arg) = 3
    /\ \A n \in 1..3 : IsFilterCall(n) /\ arg[n].startMs = 500 /\ arg[n].endMs = 1500
    /\ arg[1].timeline = 1 /\ arg[2].timeline = 2 /\ arg[3].timeline = 1
    /\ timeline[1].events # timeline[2].events
    /\ result[1][1].ref = 1 /\ result[2][1].ref = 2 /\ result[3][1].ref = 1
    /\ result[1][1].value # result[2][1].value
    /\ DOMAIN rangeFilterCache[1] = {"0.5-1.5"}

(***************************************************************************)
(* The stages and the arrays they create and write.  An array is known by  *)
(* its place in arrays; the array passed to a direct call is arrays[1].    *)
(* processEvents keeps its arrays in rawEvents, events and                 *)
(* processedEvents.                                                        *)
(***************************************************************************)

\* An expression that makes an array (a literal, filter, Array.from): the
\* arrays with the new one, and its reference.
NewArray(h, contents) == [heap |-> Append(h, contents), ref |-> Len(h) + 1]

\* Variant of Spread: no copy is made, the array itself is used.
SpreadAliased(h, ref) == [heap |-> h, ref |-> ref]

\* [...xs]
Spread(h, ref) == NewArray(h, h[ref])

\* A method that writes the array it is called on (sort, reverse, push,
\* an index assignment): the array holds contents afterwards.
InPlace(h, ref, contents) == [heap |-> [h EXCEPT ![ref] = contents], ref |-> ref]

\* events.filter(...), part_005 line 128.
FilterByDurationArrays ==
    /\ pc = "filterByDuration"
    /\ arrays # NoArrays
    /\ LET out == NewArray(arrays, filterByDuration(arrays[1], arg.minDurationMs))
       IN  /\ arrays' = out.heap
           /\ result' = Some(out.ref)
    /\ pc' = "filtered"
    /\ UNCHANGED <<processorVars, parse, rangeFilterCache, arg>>

\* file-aggregator.ts lines 6-42: one array per group of the Map, the
\* fileEvents array, and its sort.
AggregateByFileArrays ==
    /\ pc = "aggregateByFile"
    /\ arrays # NoArrays
    /\ LET fileMap == GroupByFile(arrays[1], <<>>)
           lists == [i \in DOMAIN fileMap |-> fileMap[i].list]
           fileEvents == NewArray(arrays \o lists, ToFileEvents(fileMap))
           sorted == InPlace(fileEvents.heap, fileEvents.ref,
                             SortByTotalDesc(fileEvents.heap[fileEvents.ref]))
       IN  /\ arrays' = sorted.heap
           /\ result' = Some(sorted.ref)
    /\ pc' = "aggregated"
    /\ UNCHANGED <<processorVars, parse, rangeFilterCache, arg>>

\* part_005 lines 311-376: Array.from(locationMap.values()), its filter, and
\* the sort of the filtered array.
ExtractLocationsArrays ==
    /\ pc = "extractLocationsFromFile"
    /\ arrays # NoArrays
    /\ LET values == NewArray(arrays, MapValues(LocationLoop(arrays[1], <<>>)))
           kept == NewArray(values.heap, FilterNoise(values.heap[values.ref]))
           sorted == InPlace(kept.heap, kept.ref,
                             SortByDurationDesc(kept.heap[kept.ref]))
       IN  /\ arrays' = sorted.heap
           /\ result' = Some(sorted.ref)
    /\ pc' = "extracted"
    /\ UNCHANGED <<processorVars, parse, rangeFilterCache, arg>>

\* utils.ts lines 31-55: the sorted copy, or the working set `result', its
\* pushes, sorts and index assignments, and its reverse.
GetTopNArrays ==
    /\ pc = "getTopN"
    /\ arrays # NoArrays
    /\ LET items == arrays[1]
           copy == Spread(arrays, 1)
           sortedCopy == InPlace(copy.heap, copy.ref,
                                 SortByValue(copy.heap[copy.ref], TRUE, "value"))
           working == NewArray(arrays, <<>>)
           looped == InPlace(working.heap, working.ref,
                             TopNLoop(items, arg.n, "value", <<>>).value)
           reversed == InPlace(looped.heap, looped.ref,
                               Reverse(looped.heap[looped.ref]))
       IN  IF Len(items) <= arg.n
           THEN arrays' = sortedCopy.heap /\ result' = Some(sortedCopy.ref)
           ELSE arrays' = reversed.heap /\ result' = Some(reversed.ref)
    /\ pc' = "gotTopN"
    /\ UNCHANGED <<processorVars, parse, rangeFilterCache, arg>>

\* quickselect([...values], index) for each of n percentiles.
RECURSIVE SpreadTimes(_, _, _)
SpreadTimes(h, ref, n) ==
    IF n = 0 THEN h ELSE SpreadTimes(Spread(h, ref).heap, ref, n - 1)

\* constants.ts lines 102-133: the sorted copy, or one copy per percentile
\* for quickselect (whose lows, highs and pivots are arrays of its own).
CalculatePercentilesArrays ==
    /\ pc = "calculatePercentilesFromNumbers"
    /\ arrays # NoArrays
    /\ LET values == arrays[1]
           copy == Spread(arrays, 1)
           sorted == InPlace(copy.heap, copy.ref,
                             SortedAscending(copy.heap[copy.ref]))
       IN  arrays' =
               IF Len(values) = 0 THEN arrays
               ELSE IF Len(values) < QuickselectMinLength
                       \/ Len(arg.percentiles) > QuickselectMaxPercentiles
               THEN sorted.heap
               ELSE SpreadTimes(arrays, 1, Len(arg.percentiles))
    /\ result' = Some(calculatePercentilesFromNumbers(arrays[1], arg.percentiles))
    /\ pc' = "gotPercentiles"
    /\ UNCHANGED <<processorVars, parse, rangeFilterCache, arg>>

(* A run of processEvents, or a direct call of one of the other stages *)

\* Processed lists of three files and of no file.
StageEvents ==
    { [i \in DOMAIN shapes |-> ProcessedOf(shapes[i], i)] :
        shapes \in SeqsUpTo(
            { [category |-> "check", duration |-> 1, filePath |-> Some("/src/a.ts")],
              [category |-> "check", duration |-> 2, filePath |-> Some("/src/b.ts")],
              [category |-> "emit", duration |-> 2, filePath |-> Some("/lib/c.ts")],
              [category |-> "check", duration |-> 1, filePath |-> None] },
            MaxProcessed) }

InitStages ==
    \/ InitPair
    \/ /\ ProcessorIdle
       /\ parse = None
       /\ rangeFilterCache = EmptyCache
       /\ result = None
       /\ \/ /\ pc = "filterByDuration"
             /\ arg \in [minDurationMs : {0, 500, 600}]
             /\ arrays \in { <<evs>> : evs \in FilterEvents }
          \/ /\ pc = "aggregateByFile"
             /\ arg = None
             /\ arrays \in { <<evs>> : evs \in StageEvents }
          \/ /\ pc = "extractLocationsFromFile"
             /\ arg = None
             /\ arrays \in { <<evs>> : evs \in LocationInputs }
          \/ /\ pc = "getTopN"
             /\ arg \in [n : 1..MaxTopN]
             /\ arrays \in { <<items>> : items \in SeqsUpTo(ValueItems, MaxItems) }
          \/ /\ pc = "calculatePercentilesFromNumbers"
             /\ arg \in [percentiles : PercentileLists]
             /\ arrays \in { <<values>> : values \in PercentileValues }

NextStages ==
    \/ Next
    \/ FilterByDurationArrays
    \/ AggregateByFileArrays
    \/ ExtractLocationsArrays
    \/ GetTopNArrays
    \/ CalculatePercentilesArrays

SpecStages == InitStages /\ [][NextStages]_vars

(* Properties of the stages *)

\* C28: no stage writes the list it is given: at every step of
\* processEvents, and over a call of filterByDuration, aggregateByFile,
\* extractLocationsFromFile, getTopN or calculatePercentilesFromNumbers, the
\* list passed in keeps its elements, their order and their fields.
C28_InputsUnchanged ==
    [][/\ rawEvents' = rawEvents
       /\ arrays # NoArrays => /\ arrays' # NoArrays
                               /\ arrays'[1] = arrays[1]]_vars

\* getTopN was given two items in ascending order and returned them in
\* descending order, in another array.
C28_Witness ==
    /\ pc = "gotTopN"
    /\ arrays # NoArrays
    /\ Len(arrays[1]) = 2
    /\ arrays[1][1].value < arrays[1][2].value
    /\ result # None
    /\ result[1] # 1
    /\ arrays[result[1]] = <<arrays[1][2], arrays[1][1]>>

====
